---- MODULE Spec2Model ----
(***************************************************************************)
(* A model of the sbomsaas web glue layer: the JWT token codec and the two *)
(* access guards (src/src/auth/auth_utils.py), the OAuth login / callback  *)
(* / logout routes and the Kong consumer provisioning workflow             *)
(* (src/src/app/app.py), and the Kong admin client (src/kong_admin_api.py).*)
(*                                                                         *)
(* Time is counted in hours.  Strings that the code takes apart (emails)   *)
(* are sequences of one-character strings; Python's None is the string     *)
(* "None"; a Python dict is a function whose domain is its set of keys.    *)
(* PyJWT and the gateway are outside the repository: jwt.encode/jwt.decode *)
(* follow PyJWT 2.x (the tests require encode to return str), the gateway  *)
(* follows Kong's admin API as the client's docstrings describe it.        *)
(***************************************************************************)
EXTENDS Integers, Sequences, FiniteSets, TLC

None == "None"

\* ------------------------------------------------------------- state
VARIABLES
  now,        \* the clock (hours)
  session,    \* per browser: the Flask session's oauth_state, or None
  cookie,     \* per browser: the last auth_token it was given (value), and
              \* whether its jar still holds it (present)
  wf,         \* per browser: the callback in flight and its provisioning workflow
  consumers,  \* the gateway's consumers
  keys,       \* the gateway's key-auth credentials
  resp,       \* the request the last step answered, if any, with its response
  out         \* the last call of a service function or of the client, with its result

vars == <<now, session, cookie, wf, consumers, keys, resp, out>>

\* ------------------------------------------------------------- bounds
MaxKeys == 2
MaxEmailLen == 3
MaxTime == 36          \* the clock stops advancing here (hours)
TickHours == 12        \* one step of the clock (hours)

\* ------------------------------------------------- program constants
JWT_EXPIRATION_HOURS == 24
JWT_SECRET_KEY == "dev-jwt-secret-key-change-this"
JWT_ALGORITHM == "HS256"
SecondsPerHour == 3600

Browsers == {"b1"}

\* What the identity provider's user-info endpoint answers (callback, user_info).
UserInfos ==
  { [id |-> "g1", email |-> <<"a", ".", "b", "@", "x">>, name |-> "Ann", picture |-> "pic1"],
    [id |-> "g2", email |-> <<"a", "_", "b", "@", "y">>, name |-> "Bob"] }

\* dict.get(key): the value, or None for a missing key.
Get(d, k) == IF k \in DOMAIN d THEN d[k] ELSE None

\* ------------------------------------------------------ token codec
\* HMAC over the signing input, as a term: equal terms iff equal key and input.
Sign(key, alg, payload) == [key |-> key, alg |-> alg, payload |-> payload, flip |-> FALSE]

\* jwt.encode: datetimes become NumericDate seconds, then header.payload.signature.
jwt_encode(payload, key, alg) ==
  LET json == [k \in DOMAIN payload |->
                 IF k \in {"exp", "iat"} THEN payload[k] * SecondsPerHour ELSE payload[k]]
  IN  [segs |-> 3, alg |-> alg, payload |-> json, sig |-> Sign(key, alg, json)]

\* generate_jwt_token reading the subject under the user-info key 'id'
generate_jwt_token_id(user_data, utcnow) ==
  LET payload == [user_id |-> Get(user_data, "id"),
                  email   |-> Get(user_data, "email"),
                  name    |-> Get(user_data, "name"),
                  picture |-> Get(user_data, "picture"),
                  exp     |-> utcnow + JWT_EXPIRATION_HOURS,
                  iat     |-> utcnow]
  IN  jwt_encode(payload, JWT_SECRET_KEY, JWT_ALGORITHM)

generate_jwt_token(user_data, utcnow) ==
  LET payload == [user_id |-> Get(user_data, "sub"),
                  email   |-> Get(user_data, "email"),
                  name    |-> Get(user_data, "name"),
                  picture |-> Get(user_data, "picture"),
                  exp     |-> utcnow + JWT_EXPIRATION_HOURS,
                  iat     |-> utcnow]
  IN  jwt_encode(payload, JWT_SECRET_KEY, JWT_ALGORITHM)

\* The exception classes jwt.decode raises, with their base class.
ExcBase(exc) ==
  CASE exc = "InvalidSignatureError" -> "DecodeError"
    [] exc = "DecodeError"           -> "InvalidTokenError"
    [] exc = "ExpiredSignatureError" -> "InvalidTokenError"
    [] exc = "InvalidAlgorithmError" -> "InvalidTokenError"
    [] exc = "InvalidTokenError"     -> "PyJWTError"
    [] exc = "KongAdminAPIError"     -> "Exception"
    [] exc = "KeyError"              -> "Exception"
    [] exc = "AttributeError"        -> "Exception"
    [] exc = "TypeError"             -> "Exception"
    [] exc = "PyJWTError"            -> "Exception"
    [] OTHER                         -> "BaseException"

\* isinstance(exc, cls) for the classes above (the hierarchy is four deep).
IsInstance(exc, cls) ==
  cls \in {exc, ExcBase(exc), ExcBase(ExcBase(exc)), ExcBase(ExcBase(ExcBase(exc))),
           ExcBase(ExcBase(ExcBase(ExcBase(exc))))}

\* jwt.decode called with options={"verify_exp": False}
jwt_decode_no_exp(token, key, algs, utcnow) ==
  IF token.segs # 3 THEN [ok |-> FALSE, exc |-> "DecodeError"]
  ELSE IF token.alg \notin algs THEN [ok |-> FALSE, exc |-> "InvalidAlgorithmError"]
  ELSE IF token.sig # Sign(key, token.alg, token.payload)
       THEN [ok |-> FALSE, exc |-> "InvalidSignatureError"]
  ELSE [ok |-> TRUE, payload |-> token.payload]

\* jwt.decode(token, key, algorithms=[alg]) at time utcnow: the payload or the
\* exception raised.  Order as in PyJWT: segments, algorithm, signature, exp.
jwt_decode(token, key, algs, utcnow) ==
  IF token.segs # 3 THEN [ok |-> FALSE, exc |-> "DecodeError"]
  ELSE IF token.alg \notin algs THEN [ok |-> FALSE, exc |-> "InvalidAlgorithmError"]
  ELSE IF token.sig # Sign(key, token.alg, token.payload)
       THEN [ok |-> FALSE, exc |-> "InvalidSignatureError"]
  ELSE IF "exp" \in DOMAIN token.payload /\ token.payload["exp"] <= utcnow * SecondsPerHour
       THEN [ok |-> FALSE, exc |-> "ExpiredSignatureError"]
  ELSE [ok |-> TRUE, payload |-> token.payload]

\* verify_jwt_token without its second except clause
VerifyCaught_only_expired == {"ExpiredSignatureError"}

\* The classes verify_jwt_token's except clauses name.
VerifyCaught == {"ExpiredSignatureError", "InvalidTokenError"}

\* verify_jwt_token that also wants the token to be one a browser's jar
\* still holds, as a server that kept a table of live sessions would
verify_jwt_token_live_session(token, utcnow) ==
  LET r == jwt_decode(token, JWT_SECRET_KEY, {JWT_ALGORITHM}, utcnow)
      live == \E b \in DOMAIN cookie : cookie[b].present /\ cookie[b].value = token
  IN  IF r.ok /\ live THEN [kind |-> "payload", payload |-> r.payload]
      ELSE [kind |-> "none"]

\* verify_jwt_token: the decoded payload, None, or the exception that escapes it.
verify_jwt_token(token, utcnow) ==
  LET r == jwt_decode(token, JWT_SECRET_KEY, {JWT_ALGORITHM}, utcnow)
  IN  IF r.ok THEN [kind |-> "payload", payload |-> r.payload]
      ELSE IF \E c \in VerifyCaught : IsInstance(r.exc, c)
           THEN [kind |-> "none"]
           ELSE [kind |-> "raise", exc |-> r.exc]

\* ------------------------------------------------------- access gate
EmptyDict == [k \in {} |-> None]
NoSig == [key |-> "", alg |-> "", payload |-> EmptyDict, flip |-> FALSE]
\* A string that is no JWT: n dot-separated segments; n = 0 is the empty string.
Garbage(n) == [segs |-> n, alg |-> "", payload |-> EmptyDict, sig |-> NoSig]
EmptyString == Garbage(0)

\* Python truthiness of a string / of a verification result.
TruthyStr(token) == token.segs # 0
Falsy(user) == user.kind = "none" \/ (user.kind = "payload" /\ DOMAIN user.payload = {})

\* A request's cookies or a response's Set-Cookie: the auth_token cookie, if any.
NoCookie == [present |-> FALSE, value |-> EmptyString]
Cookie(token) == [present |-> TRUE, value |-> token]

\* An Authorization header "<scheme> <parts joined by one space>"; a header
\* without any space has no parts.
NoHeader == [present |-> FALSE, scheme |-> "", parts |-> <<>>]
Header(scheme, parts) == [present |-> TRUE, scheme |-> scheme, parts |-> parts]

\* login_required_cookie redirecting to url_for('index')
login_required_cookie_index(route, cookies, utcnow) ==
  LET user == IF cookies.present /\ TruthyStr(cookies.value)
              THEN verify_jwt_token(cookies.value, utcnow) ELSE [kind |-> "none"]
  IN  IF user.kind = "raise" THEN [route |-> route, status |-> 500, location |-> "",
                                   ran |-> FALSE, user |-> EmptyDict, bodyKeys |-> {},
                                   setCookie |-> NoCookie]
      ELSE IF Falsy(user) THEN [route |-> route, status |-> 302, location |-> "index",
                                ran |-> FALSE, user |-> EmptyDict, bodyKeys |-> {},
                                setCookie |-> NoCookie]
      ELSE [route |-> route, status |-> 200, location |-> "", ran |-> TRUE,
            user |-> user.payload, bodyKeys |-> {}, setCookie |-> NoCookie]

\* get_user_from_header without the startswith('Bearer ') test
get_user_from_header_any_scheme(auth_header, utcnow) ==
  IF auth_header.present /\ Len(auth_header.parts) >= 1
  THEN verify_jwt_token(auth_header.parts[1], utcnow)
  ELSE [kind |-> "none"]

get_user_from_cookie(cookies, utcnow) ==
  IF cookies.present /\ TruthyStr(cookies.value)
  THEN verify_jwt_token(cookies.value, utcnow)
  ELSE [kind |-> "none"]

\* auth_header.startswith('Bearer ') and then auth_header.split(' ')[1]
get_user_from_header(auth_header, utcnow) ==
  IF auth_header.present /\ auth_header.scheme = "Bearer" /\ Len(auth_header.parts) >= 1
  THEN verify_jwt_token(auth_header.parts[1], utcnow)
  ELSE [kind |-> "none"]

\* A response: status, Location, whether the wrapped handler ran and with which
\* user argument, the keys of a JSON body, and the Set-Cookie it carries.
Response(route, status, location, ran, user, bodyKeys, setCookie) ==
  [route |-> route, status |-> status, location |-> location, ran |-> ran,
   user |-> user, bodyKeys |-> bodyKeys, setCookie |-> setCookie]

\* An exception that leaves a view function: Flask's 500 handler answers.
InternalError(route) == Response(route, 500, "", FALSE, EmptyDict, {}, NoCookie)

login_required_cookie(route, cookies, utcnow) ==
  LET user == get_user_from_cookie(cookies, utcnow)
  IN  IF user.kind = "raise" THEN InternalError(route)
      ELSE IF Falsy(user) THEN Response(route, 302, "login", FALSE, EmptyDict, {}, NoCookie)
      ELSE Response(route, 200, "", TRUE, user.payload, {}, NoCookie)

login_required_api(route, auth_header, utcnow) ==
  LET user == get_user_from_header(auth_header, utcnow)
  IN  IF user.kind = "raise" THEN InternalError(route)
      ELSE IF Falsy(user)
           THEN Response(route, 401, "", FALSE, EmptyDict, {"error", "message"}, NoCookie)
      ELSE Response(route, 200, "", TRUE, user.payload, {}, NoCookie)

\* ------------------------------------------------- Kong admin client
\* Optional values (a str or None).
Nothing == [some |-> FALSE, v |-> <<>>]
Some(v) == [some |-> TRUE, v |-> v]

\* What came back for one client call: an HTTP response whose body is a JSON
\* object ("dict"), a JSON array ("list") or no JSON at all ("text"), or no
\* response at all (connection refused, timeout, DNS failure).
HttpResponse(status, form, body) ==
  [kind |-> "response", status |-> status, form |-> form, body |-> body]
TransportFailure == [kind |-> "transport", status |-> 0, form |-> "text", body |-> EmptyDict]

Returned(body, form, status) ==
  [kind |-> "return", status |-> status, form |-> form, body |-> body,
   exc |-> "", message |-> <<>>]
Raised(exc, status_code, message, body) ==
  [kind |-> "raise", status |-> status_code, form |-> "dict", body |-> body,
   exc |-> exc, message |-> message]

\* _extract_error_message: a prefix chosen by status code and message text,
\* followed by the message.  Message texts are words; HasWord is "in".
HasWord(message, w) == \E i \in 1..Len(message) : message[i] = w
_extract_error_message(response_json, status_code) ==
  LET message == IF "message" \in DOMAIN response_json THEN response_json["message"]
                 ELSE <<"HTTP", "error">>
  IN  CASE status_code = 400 /\ HasWord(message, "required") -> <<"Missing required field:">> \o message
        [] status_code = 400 /\ ~HasWord(message, "required") /\ HasWord(message, "invalid")
                                                            -> <<"Invalid data provided:">> \o message
        [] status_code = 400 /\ ~HasWord(message, "required") /\ ~HasWord(message, "invalid")
                                                            -> <<"Bad request:">> \o message
        [] status_code = 404 -> <<"Resource not found:">> \o message
        [] status_code = 409 /\ HasWord(message, "UNIQUE violation") -> <<"Duplicate resource:">> \o message
        [] status_code = 409 /\ ~HasWord(message, "UNIQUE violation") -> <<"Conflict:">> \o message
        [] OTHER -> message

\* The statuses _make_request turns into KongAdminAPIError.
RaisedStatuses == {400, 404, 409}

\* _make_request with an except clause that catches every error
_make_request_rewrap(reply) ==
  IF reply.kind = "transport" \/ reply.status \in RaisedStatuses
  THEN Raised("KongAdminAPIError", 0, <<"Request failed:">>, EmptyDict)
  ELSE Returned(IF reply.form = "text" THEN [message |-> <<"Empty response">>] ELSE reply.body,
                IF reply.form = "text" THEN "dict" ELSE reply.form, reply.status)

\* _make_request, given what the session's request produced.
_make_request(reply) ==
  IF reply.kind = "transport"
  THEN Raised("KongAdminAPIError", 0, <<"Request failed:">>, EmptyDict)
  ELSE LET response_json == IF reply.form = "text"
                            THEN [message |-> <<"Empty response">>] ELSE reply.body
           form == IF reply.form = "text" THEN "dict" ELSE reply.form
       IN  IF reply.status \in RaisedStatuses
           THEN IF form = "list"
                THEN Raised("AttributeError", reply.status, <<>>, EmptyDict)
                ELSE Raised("KongAdminAPIError", reply.status,
                            _extract_error_message(response_json, reply.status),
                            response_json)
           ELSE Returned(response_json, form, reply.status)

\* ------------------------------------------------------- the gateway
\* Gateway identifiers (usernames, custom ids, consumer ids) are sequences of
\* one-character strings.
Digit == <<"1", "2", "3", "4", "5", "6", "7", "8", "9">>
ConsumerIdOf(n) == <<"c", "_", Digit[n]>>
KeyOf(n) == <<"k", "_", Digit[n]>>

\* The gateway gives a new entity an id no entity it holds has.
FreshIndex(ids) == CHOOSE n \in 1..Len(Digit) : n \notin ids /\ \A m \in 1..(n - 1) : m \in ids
ConsumerIndexes(cs) == {n \in 1..Len(Digit) : \E c \in cs : c.id = ConsumerIdOf(n)}
KeyIndexes(ks) == {n \in 1..Len(Digit) : \E k \in ks : k.id = KeyOf(n)}

\* GET /consumers/{username_or_id}: Kong resolves the path segment as a
\* consumer id or a username.
Lookup(cs, username_or_id) ==
  {c \in cs : c.username = username_or_id \/ c.id = username_or_id}

GatewayGet(cs, username_or_id) ==
  IF Lookup(cs, username_or_id) # {}
  THEN HttpResponse(200, "dict", CHOOSE c \in Lookup(cs, username_or_id) : TRUE)
  ELSE HttpResponse(404, "dict", [message |-> <<"Not", "found">>])

\* a gateway that accepts any POST /consumers
Conflicts_none(cs, payload) == {}

\* POST /consumers: username and custom_id are unique.
Conflicts(cs, payload) ==
  {c \in cs : c.username = payload.username \/ c.custom_id = payload.custom_id}
NewConsumer(n, payload) ==
  [id |-> ConsumerIdOf(n), username |-> payload.username,
   custom_id |-> payload.custom_id, tags |-> payload.tags]
GatewayCreate(cs, n, payload) ==
  IF Conflicts(cs, payload) # {}
  THEN HttpResponse(409, "dict", [message |-> <<"UNIQUE violation">>])
  ELSE HttpResponse(201, "dict", NewConsumer(n, payload))

\* POST /consumers/{username_or_id}/key-auth with an empty payload.
NewKey(n, c) == [id |-> KeyOf(n), key |-> KeyOf(n), consumer |-> c.id]
GatewayCreateKey(cs, n, username_or_id) ==
  IF Lookup(cs, username_or_id) # {}
  THEN HttpResponse(201, "dict", NewKey(n, CHOOSE c \in Lookup(cs, username_or_id) : TRUE))
  ELSE HttpResponse(404, "dict", [message |-> <<"Not", "found">>])

\* GET /consumers/{username_or_id}/key-auth: the consumer's keys, oldest first.
KeysOf(ks, c) == {k \in ks : k.consumer = c.id}
RECURSIVE InOrder(_)
InOrder(ks) ==
  IF ks = {} THEN <<>>
  ELSE LET first == CHOOSE k \in ks :
                      \A n, m \in 1..Len(Digit) :
                        k.id = KeyOf(n) /\ (\E j \in ks : j.id = KeyOf(m)) => n <= m
       IN  <<first>> \o InOrder(ks \ {first})
GatewayGetKeys(cs, ks, username_or_id) ==
  IF Lookup(cs, username_or_id) # {}
  THEN HttpResponse(200, "dict",
         [data |-> InOrder(KeysOf(ks, CHOOSE c \in Lookup(cs, username_or_id) : TRUE))])
  ELSE HttpResponse(404, "dict", [message |-> <<"Not", "found">>])

\* DELETE /consumers/{username_or_id}: the consumer goes, with its keys.
GatewayDelete(cs, username_or_id) ==
  IF Lookup(cs, username_or_id) # {}
  THEN HttpResponse(204, "text", EmptyDict)
  ELSE HttpResponse(404, "dict", [message |-> <<"Not", "found">>])

\* What a gateway that misbehaves may answer instead: error statuses, a
\* success status with a body that lacks the id, a JSON array, nothing at all.
\* The faults the whole-service specification injects: one of each kind of
\* outcome (a returned error status, no response, an exception that is no
\* KongAdminAPIError).
FewFaultReplies ==
  { HttpResponse(500, "text", EmptyDict), HttpResponse(409, "list", EmptyDict),
    TransportFailure }

\* A gateway that answers every call as it should.
NoFaults == {}

FaultReplies(okStatus) ==
  { HttpResponse(st, "dict", [message |-> <<"schema", "violation">>]) : st \in {400, 404, 409} }
  \cup { HttpResponse(st, "text", EmptyDict) : st \in {500, 503} }
  \cup { HttpResponse(okStatus, "dict", EmptyDict), HttpResponse(409, "list", EmptyDict),
         TransportFailure }

\* The faults injected into each of the workflow's three calls.
LookupFaults == FaultReplies(200)
CreateFaults == FaultReplies(201)
KeyFaults == FaultReplies(201)

\* --------------------------------------------- provisioning workflow
\* user_email.split('@')[0]
LocalPart(email) ==
  LET ats == {i \in 1..Len(email) : email[i] = "@"}
  IN  IF ats = {} THEN email
      ELSE SubSeq(email, 1, (CHOOSE i \in ats : \A j \in ats : i <= j) - 1)

\* s.replace(old, new) for one-character old and new
Replace(s, old, new) == [i \in 1..Len(s) |-> IF s[i] = old THEN new ELSE s[i]]

kong_username_sanitized(user_email) ==
  Replace(Replace(LocalPart(user_email), ".", "_"), "+", "_")

\* kong_utils.email_to_kong_username without the second replace
email_to_kong_username_dots_only(email) == Replace(LocalPart(email), ".", "_")

\* kong_utils.email_to_kong_username
email_to_kong_username(email) ==
  Replace(Replace(LocalPart(email), ".", "_"), "+", "_")

\* UserAPIService: username = email.split('@')[0].replace('.', '_').replace('+', '_')
UserAPIService_username(email) ==
  Replace(Replace(LocalPart(email), ".", "_"), "+", "_")

\* a lookup by the sanitized local part, as kong_utils.py does
LookupKey_sanitized(user_email) == kong_username_sanitized(user_email)

\* The arguments of the three gateway calls the workflow makes.
LookupKey(user_email) == user_email
CreatePayload(user_email) ==
  [username |-> user_email, custom_id |-> kong_username_sanitized(user_email),
   tags |-> {"free"}]
KeyOwner(user_email) == user_email

\* body['id']: the id, or the exception the subscript raises.
Subscript(r, k) ==
  IF r.form # "dict" THEN [ok |-> FALSE, exc |-> "TypeError", v |-> <<>>]
  ELSE IF k \notin DOMAIN r.body THEN [ok |-> FALSE, exc |-> "KeyError", v |-> <<>>]
  ELSE [ok |-> TRUE, exc |-> "", v |-> r.body[k]]

\* Where the workflow goes after a call: on to another call, to its return
\* statement with a result, or out with an exception.
Goto(pc, cid) == [next |-> pc, result |-> cid, exc |-> ""]
Return(result) == [next |-> "return", result |-> result, exc |-> ""]
Throw(exc) == [next |-> "raise", result |-> Nothing, exc |-> exc]

\* a handler that starts the creation after any failed lookup
OnLookupError_always_create(status_code) == Goto("create", Nothing)

\* except KongAdminAPIError as e (app.py 205-236): 404 starts the creation.
OnLookupError(status_code) ==
  IF status_code = 404 THEN Goto("create", Nothing) ELSE Return(Nothing)

\* a workflow that, finding the consumer, goes on to make it a key
AfterLookup_key_when_present(r) ==
  IF r.kind = "return"
  THEN IF r.status = 200
       THEN LET id == Subscript(r, "id")
            IN  IF id.ok THEN Goto("key", Some(id.v)) ELSE Throw(id.exc)
       ELSE OnLookupError(r.status)
  ELSE IF IsInstance(r.exc, "KongAdminAPIError") THEN OnLookupError(r.status)
  ELSE Throw(r.exc)

\* app.py 196-203 and the handler above, for the result of get_consumer
AfterLookup(r) ==
  IF r.kind = "return"
  THEN IF r.status = 200
       THEN LET id == Subscript(r, "id")
            IN  IF id.ok THEN Return(Some(id.v)) ELSE Throw(id.exc)
       ELSE OnLookupError(r.status)
  ELSE IF IsInstance(r.exc, "KongAdminAPIError") THEN OnLookupError(r.status)
  ELSE Throw(r.exc)

\* a workflow that takes a 409 from create_consumer as provisioned and goes
\* on to make the key
AfterCreate_key_on_conflict(r) ==
  IF r.kind = "return"
  THEN IF r.status = 201
       THEN LET id == Subscript(r, "id")
            IN  IF id.ok THEN Goto("key", Some(id.v)) ELSE Throw(id.exc)
       ELSE Return(Nothing)
  ELSE IF IsInstance(r.exc, "KongAdminAPIError") /\ r.status = 409 THEN Goto("key", Nothing)
  ELSE Throw(r.exc)

\* app.py 209-232, for the result of create_consumer
AfterCreate(r) ==
  IF r.kind = "return"
  THEN IF r.status = 201
       THEN LET id == Subscript(r, "id")
            IN  IF id.ok THEN Goto("key", Some(id.v)) ELSE Throw(id.exc)
       ELSE Return(Nothing)
  ELSE Throw(r.exc)

\* a workflow for which a failed key creation is a failed provisioning
AfterKey_fail_on_error(r, kong_consumer_id) ==
  IF r.kind = "return" /\ r.status = 201 THEN Return(kong_consumer_id)
  ELSE IF r.kind = "return" THEN Return(Nothing)
  ELSE IF IsInstance(r.exc, "KongAdminAPIError") THEN Return(Nothing)
  ELSE Throw(r.exc)

\* a workflow that returns the id in the response of the key call
AfterKey_returns_key_id(r, kong_consumer_id) ==
  IF r.kind = "return"
  THEN IF r.status = 201 /\ Subscript(r, "id").ok THEN Return(Some(r.body["id"]))
       ELSE Return(kong_consumer_id)
  ELSE IF IsInstance(r.exc, "KongAdminAPIError") THEN Return(kong_consumer_id)
  ELSE Throw(r.exc)

\* app.py 220-229, for the result of create_consumer_key
AfterKey(r, kong_consumer_id) ==
  IF r.kind = "return" THEN Return(kong_consumer_id)
  ELSE IF IsInstance(r.exc, "KongAdminAPIError") THEN Return(kong_consumer_id)
  ELSE Throw(r.exc)

\* the workflow without its outer try/except
OuterExcept_absent(step) == step

\* the outer handler written as except KongAdminAPIError
OuterExcept_kong_only(step) ==
  IF step.next = "raise" /\ IsInstance(step.exc, "KongAdminAPIError")
  THEN [next |-> "return", result |-> Nothing, exc |-> ""]
  ELSE step

\* except Exception (app.py 238-241) around the whole workflow
OuterExcept(step) ==
  IF step.next = "raise" /\ IsInstance(step.exc, "Exception") THEN Return(Nothing)
  ELSE step

\* ------------------------------------------------- service functions
\* What the functions of kong_utils.py, KongServiceManager and UserAPIService
\* return, given what the client calls they make came back with.

\* keys_response.get('data', []): the list, or the exception .get raises
DataOf(r) ==
  IF r.form # "dict" THEN [ok |-> FALSE, exc |-> "AttributeError", v |-> <<>>]
  ELSE [ok |-> TRUE, exc |-> "", v |-> IF "data" \in DOMAIN r.body THEN r.body["data"] ELSE <<>>]

\* the list comprehension over keys (kong_utils.py 42-50, kong_admin_api.py 456-464)
KeyViews(data) ==
  [i \in 1..Len(data) |-> [id |-> data[i].id, key |-> data[i].key, consumer_id |-> Get(data[i], "consumer")]]

\* kong_utils.get_user_api_keys, after kong_api.get_consumer_keys(kong_username)
get_user_api_keys_result(r) ==
  IF r.kind = "return"
  THEN IF r.status = 200
       THEN IF DataOf(r).ok
            THEN [success |-> TRUE, keys |-> KeyViews(DataOf(r).v), count |-> Len(DataOf(r).v)]
            ELSE [success |-> FALSE, error |-> "Internal error", keys |-> <<>>]
       ELSE [success |-> FALSE, error |-> "Unexpected status", keys |-> <<>>]
  ELSE IF IsInstance(r.exc, "KongAdminAPIError")
       THEN [success |-> FALSE, error |-> "Kong API error", keys |-> <<>>]
       ELSE [success |-> FALSE, error |-> "Internal error", keys |-> <<>>]

\* kong_utils.create_user_api_key, after kong_api.create_consumer_key(kong_username, None)
create_user_api_key_result(r) ==
  IF r.kind = "return"
  THEN IF r.status = 201
       THEN IF Subscript(r, "key").ok /\ Subscript(r, "id").ok
            THEN [success |-> TRUE, key |-> r.body["key"], key_id |-> r.body["id"],
                  consumer_id |-> Get(r.body, "consumer")]
            ELSE [success |-> FALSE, error |-> "Internal error"]
       ELSE [success |-> FALSE, error |-> "Failed to create API key"]
  ELSE IF IsInstance(r.exc, "KongAdminAPIError")
       THEN [success |-> FALSE, error |-> "Kong API error"]
       ELSE [success |-> FALSE, error |-> "Internal error"]

\* kong_utils.get_user_kong_info, after kong_api.get_consumer(kong_username)
\* and, on 200, get_user_api_keys(user_email)
NotInKong == [success |-> FALSE, error |-> "User not found in Kong", consumer |-> None, api_keys |-> <<>>]
get_user_kong_info_result(r, keys_info) ==
  IF r.kind = "return"
  THEN IF r.status = 200
       THEN IF Subscript(r, "id").ok /\ Subscript(r, "username").ok
            THEN [success |-> TRUE,
                  consumer |-> [id |-> r.body["id"], username |-> r.body["username"],
                                custom_id |-> Get(r.body, "custom_id")],
                  api_keys |-> IF keys_info.success THEN keys_info.keys ELSE <<>>,
                  key_count |-> IF keys_info.success THEN Len(keys_info.keys) ELSE 0]
            ELSE [success |-> FALSE, error |-> "Internal error", consumer |-> None, api_keys |-> <<>>]
       ELSE NotInKong
  ELSE IF IsInstance(r.exc, "KongAdminAPIError")
       THEN IF r.status = 404 THEN NotInKong
            ELSE [success |-> FALSE, error |-> "Kong API error", consumer |-> None, api_keys |-> <<>>]
       ELSE [success |-> FALSE, error |-> "Internal error", consumer |-> None, api_keys |-> <<>>]

\* KongServiceManager.cleanup_user_access inside UserAPIService.revoke_user_access,
\* after kong_api.delete_consumer(username)
revoke_user_access_result(r) ==
  IF r.kind = "return"
  THEN IF r.status = 204 THEN [success |-> TRUE, message |-> "All API access removed successfully"]
       ELSE [success |-> FALSE, error |-> "Failed to remove API access"]
  ELSE IF IsInstance(r.exc, "KongAdminAPIError")
       THEN [success |-> FALSE, error |-> "Kong API error", status_code |-> r.status]
       ELSE [success |-> FALSE, error |-> "Failed to revoke API access"]

\* KongServiceManager.provision_user_api_access: the payload of its
\* create_consumer call, and its result given what create_consumer and, after
\* a 201, create_consumer_key(username) came back with.
UserTag(user_id) ==
  CASE user_id = "g1" -> "user-g1" [] user_id = "g2" -> "user-g2" [] OTHER -> "user-"
ProvisionPayload(user_id, username, email) ==
  [username |-> username, custom_id |-> email, tags |-> {"sbom-saas", "api-user", UserTag(user_id)}]
ProvisionError(r) ==
  IF IsInstance(r.exc, "KongAdminAPIError")
  THEN IF r.status = 409
       THEN [success |-> FALSE, error |-> "User already has API access", duplicate |-> TRUE]
       ELSE [success |-> FALSE, error |-> "Kong API error", status_code |-> r.status]
  ELSE [success |-> FALSE, error |-> "Unexpected error"]
provision_user_api_access(rc, rk, username) ==
  IF rc.kind = "raise" THEN ProvisionError(rc)
  ELSE IF rc.status # 201 THEN [success |-> FALSE, error |-> "Failed to create Kong consumer"]
  ELSE IF ~Subscript(rc, "id").ok THEN [success |-> FALSE, error |-> "Unexpected error"]
  ELSE IF rk.kind = "raise" THEN ProvisionError(rk)
  ELSE IF rk.status # 201
       THEN [success |-> FALSE, error |-> "Failed to create API key", consumer_id |-> rc.body["id"]]
  ELSE IF ~Subscript(rk, "key").ok THEN [success |-> FALSE, error |-> "Unexpected error"]
  ELSE [success |-> TRUE, consumer_id |-> rc.body["id"], api_key |-> rk.body["key"],
        username |-> username, message |-> "API access provisioned successfully"]

\* KongServiceManager.get_user_api_keys, after kong_api.get_consumer_keys(username);
\* it handles KongAdminAPIError only.
KSM_get_user_api_keys(r) ==
  IF r.kind = "return"
  THEN IF r.status = 200
       THEN IF DataOf(r).ok
            THEN [raised |-> FALSE, success |-> TRUE, keys |-> KeyViews(DataOf(r).v),
                  count |-> Len(DataOf(r).v)]
            ELSE [raised |-> TRUE, success |-> FALSE, keys |-> <<>>]
       ELSE [raised |-> FALSE, success |-> FALSE, keys |-> <<>>]
  ELSE IF IsInstance(r.exc, "KongAdminAPIError")
       THEN [raised |-> FALSE, success |-> FALSE, keys |-> <<>>]
       ELSE [raised |-> TRUE, success |-> FALSE, keys |-> <<>>]

\* UserAPIService.setup_user_api_access, given the result of
\* provision_user_api_access and, for a duplicate, of get_user_api_keys
setup_user_api_access_result(result, keys_result, username) ==
  IF result.success
  THEN [success |-> TRUE, api_key |-> result.api_key, consumer_id |-> result.consumer_id,
        username |-> username]
  ELSE IF "duplicate" \in DOMAIN result /\ keys_result.raised
       THEN [success |-> FALSE, error |-> "Internal error setting up API access"]
  ELSE IF "duplicate" \in DOMAIN result /\ keys_result.success /\ keys_result.keys # <<>>
       THEN [success |-> TRUE, api_key |-> keys_result.keys[1].key, username |-> username,
             existing |-> TRUE]
  ELSE [success |-> FALSE, error |-> result.error]

\* ----------------------------------------------------------- actions
OAuthStates == {"s1", "s2"}
Emails == {ui.email : ui \in UserInfos}

\* No callback in flight.  last and prior are history.  last: the email of the
\* workflow run that finished last in this browser and, if that run saw
\* getConsumer 404 and createConsumer 201, what it returned.  prior: for a run
\* in flight, last's result if last was for the same email.
NoRun == [email |-> <<>>, saw201 |-> FALSE, result |-> Nothing]
Idle ==
  [pc |-> "idle", user |-> EmptyDict, cid |-> Nothing, calls |-> <<>>,
   prior |-> NoRun, last |-> NoRun]

Request(route, cookies, header, state, code) ==
  [route |-> route, cookies |-> cookies, header |-> header, state |-> state, code |-> code]
Answer(req, res, calls) == [req |-> req, res |-> res, at |-> now, calls |-> calls]

\* The step just taken answered no request.
NoAnswer ==
  [req |-> Request("", NoCookie, NoHeader, None, None),
   res |-> Response("", 0, "", FALSE, EmptyDict, {}, NoCookie), at |-> 0, calls |-> <<>>]

\* No service function or client call has been made.
NoCall == [op |-> "", args |-> <<>>]

\* The cookies a browser sends by itself.
Jar(b) == IF cookie[b].present THEN Cookie(cookie[b].value) ELSE NoCookie

Init ==
  /\ now = 0
  /\ session = [b \in Browsers |-> None]
  /\ cookie = [b \in Browsers |-> NoCookie]
  /\ wf = [b \in Browsers |-> Idle]
  /\ consumers = {}
  /\ keys = {}
  /\ resp = NoAnswer
  /\ out = NoCall

\* Time passes.
Tick ==
  /\ now + TickHours <= MaxTime
  /\ now' = now + TickHours
  /\ resp' = NoAnswer
  /\ UNCHANGED <<session, cookie, wf, consumers, keys>>
  /\ out' = NoCall

\* GET /login: a fresh random state goes into the session and into the redirect.
login(b, state) ==
  /\ session' = [session EXCEPT ![b] = state]
  /\ resp' = Answer(Request("login", Jar(b), NoHeader, None, None),
                    Response("login", 302, "google", TRUE, EmptyDict, {}, NoCookie), <<>>)
  /\ UNCHANGED <<now, cookie, wf, consumers, keys>>
  /\ out' = NoCall

\* GET /logout: answers with an emptied, expired auth_token cookie, so the
\* browser's jar drops the cookie.  Nothing is recorded on the server.
logout(b) ==
  /\ resp' = Answer(Request("logout", Jar(b), NoHeader, None, None),
                    Response("logout", 302, "index", TRUE, EmptyDict, {}, Cookie(EmptyString)),
                    <<>>)
  /\ cookie' = [cookie EXCEPT ![b].present = FALSE]
  /\ UNCHANGED <<now, session, wf, consumers, keys>>
  /\ out' = NoCall

\* A request to a cookie-guarded page (/dashboard, /get-token, /api/get-auth-token).
dashboard(cookies) ==
  /\ resp' = Answer(Request("dashboard", cookies, NoHeader, None, None),
                    login_required_cookie("dashboard", cookies, now), <<>>)
  /\ UNCHANGED <<now, session, cookie, wf, consumers, keys>>
  /\ out' = NoCall

\* A request to a header-guarded endpoint (/api/profile, /api/protected, /api/data).
api_profile(auth_header) ==
  /\ resp' = Answer(Request("api", NoCookie, auth_header, None, None),
                    login_required_api("api", auth_header, now), <<>>)
  /\ UNCHANGED <<now, session, cookie, wf, consumers, keys>>
  /\ out' = NoCall

\* GET /callback up to the first gateway call (app.py 80-110): the state and
\* code checks, the token exchange and the user-info request.  idp is what the
\* identity provider does; user_info is what it would answer.
IdpOutcomes == {"ok", "token_error", "userinfo_error"}
StateParams == OAuthStates \cup {None}
CodeParams == {None, "", "code"}
BadRequest(b, state, code) ==
  Answer(Request("callback", Jar(b), NoHeader, state, code),
         Response("callback", 400, "", FALSE, EmptyDict, {}, NoCookie), <<>>)

\* callback going on whatever the identity provider did
callback_begin_unchecked_idp(b, state, code, idp, user_info) ==
  /\ wf[b].pc = "idle"
  /\ IF state # session[b] \/ code \in {None, ""}
     THEN /\ resp' = BadRequest(b, state, code)
          /\ wf' = wf
     ELSE /\ wf' = [wf EXCEPT ![b].pc = "lookup", ![b].user = user_info,
                          ![b].prior = IF wf[b].last.email = user_info.email
                                       THEN wf[b].last ELSE NoRun]
          /\ resp' = NoAnswer
  /\ UNCHANGED <<now, session, cookie, consumers, keys>>
  /\ out' = NoCall

callback_begin(b, state, code, idp, user_info) ==
  /\ wf[b].pc = "idle"
  /\ IF state # session[b] \/ code \in {None, ""} \/ idp # "ok"
     THEN /\ resp' = BadRequest(b, state, code)
          /\ wf' = wf
     ELSE /\ wf' = [wf EXCEPT ![b].pc = "lookup", ![b].user = user_info,
                          ![b].prior = IF wf[b].last.email = user_info.email
                                       THEN wf[b].last ELSE NoRun]
          /\ resp' = NoAnswer
  /\ UNCHANGED <<now, session, cookie, consumers, keys>>
  /\ out' = NoCall

\* A reply Kong itself can give: a JSON object or plain text, with the id in
\* the body of a success.
WellFormed(reply) ==
  /\ reply.form # "list"
  /\ reply.kind = "response" /\ reply.status \in {200, 201} => "id" \in DOMAIN reply.body

\* One gateway call of the workflow is made and answered: the workflow moves
\* to its next call, to its return or out with an exception.
Called(b, op, reply, faithful, r, step0) ==
  LET step == OuterExcept(step0)
      id == Subscript(r, "id")
      entry == [op |-> op, status |-> r.status, exc |-> r.exc,
                id |-> IF r.kind = "return" /\ id.ok THEN Some(id.v) ELSE Nothing,
                faithful |-> (reply = faithful), wellformed |-> WellFormed(reply)]
  IN  wf' = [wf EXCEPT ![b].pc = CASE step.next = "return" -> "mint"
                                   [] step.next = "raise" -> "raised"
                                   [] OTHER -> step.next,
                       ![b].cid = step.result,
                       ![b].calls = Append(@, entry)]

\* kong_api.get_consumer(user_email) and what the workflow does with it; the
\* gateway answers as it should or with one of faults.
wf_lookup(b, faults) ==
  /\ wf[b].pc = "lookup"
  /\ LET faithful == GatewayGet(consumers, LookupKey(wf[b].user.email))
     IN  \E reply \in {faithful} \cup faults :
           Called(b, "get", reply, faithful, _make_request(reply),
                  AfterLookup(_make_request(reply)))
  /\ resp' = NoAnswer
  /\ UNCHANGED <<now, session, cookie, consumers, keys>>
  /\ out' = NoCall

\* kong_api.create_consumer(username, custom_id, tags); a request whose
\* response is lost may still have been carried out (applied).
wf_create(b, faults) ==
  /\ wf[b].pc = "create"
  /\ LET faithful == GatewayCreate(consumers, FreshIndex(ConsumerIndexes(consumers)),
                                   CreatePayload(wf[b].user.email))
     IN  \E reply \in {faithful} \cup faults, applied \in BOOLEAN :
           /\ applied => reply = TransportFailure
           /\ consumers' = IF faithful.status = 201 /\ (reply = faithful \/ applied)
                           THEN consumers \cup {faithful.body} ELSE consumers
           /\ Called(b, "create", reply, faithful, _make_request(reply),
                     AfterCreate(_make_request(reply)))
  /\ resp' = NoAnswer
  /\ UNCHANGED <<now, session, cookie, keys>>
  /\ out' = NoCall

\* kong_api.create_consumer_key(user_email)
wf_key(b, faults) ==
  /\ wf[b].pc = "key"
  /\ LET faithful == GatewayCreateKey(consumers, FreshIndex(KeyIndexes(keys)),
                                      KeyOwner(wf[b].user.email))
     IN  \E reply \in {faithful} \cup faults, applied \in BOOLEAN :
           /\ applied => reply = TransportFailure
           /\ keys' = IF faithful.status = 201 /\ (reply = faithful \/ applied)
                      THEN keys \cup {faithful.body} ELSE keys
           /\ Called(b, "key", reply, faithful, _make_request(reply),
                     AfterKey(_make_request(reply), wf[b].cid))
  /\ resp' = NoAnswer
  /\ UNCHANGED <<now, session, cookie, consumers>>
  /\ out' = NoCall

\* Whether a workflow run saw getConsumer 404 and then createConsumer 201.
Saw404Then201(calls) ==
  /\ Len(calls) >= 2
  /\ calls[1].op = "get" /\ calls[1].status = 404
  /\ calls[2].op = "create" /\ calls[2].status = 201 /\ calls[2].exc = ""

\* GET /callback after provisioning (app.py 112-136): mint the token, set the
\* cookie, drop oauth_state, redirect to the dashboard.  An exception that
\* left the workflow is answered by the 500 handler instead.
callback_end(b) ==
  /\ wf[b].pc \in {"mint", "raised"}
  /\ LET user_info == wf[b].user
         user_data == [sub |-> user_info.id, email |-> user_info.email,
                       name |-> user_info.name, picture |-> Get(user_info, "picture")]
         jwt_token == generate_jwt_token(user_data, now)
         req == Request("callback", Jar(b), NoHeader, session[b], "code")
     IN  IF wf[b].pc = "raised"
         THEN /\ resp' = Answer(req, InternalError("callback"), wf[b].calls)
              /\ UNCHANGED <<cookie, session>>
         ELSE /\ resp' = Answer(req, Response("callback", 302, "dashboard", TRUE, EmptyDict,
                                              {}, Cookie(jwt_token)), wf[b].calls)
              /\ cookie' = [cookie EXCEPT ![b] = Cookie(jwt_token)]
              /\ session' = [session EXCEPT ![b] = None]
  /\ wf' = [wf EXCEPT ![b] = [Idle EXCEPT !.last =
               [email |-> wf[b].user.email, saw201 |-> Saw404Then201(wf[b].calls),
                result |-> IF Saw404Then201(wf[b].calls) THEN wf[b].cid ELSE Nothing]]]
  /\ UNCHANGED <<now, consumers, keys>>
  /\ out' = NoCall

\* ------------------------------------------- service-function calls
\* The consumers the provisioning workflow finds for an email.
WorkflowConsumers(cs, user_email) == Lookup(cs, LookupKey(user_email))

\* A call of a service function: its result, whether the gateway answered
\* every client call as it should, and, as they were when the call was made,
\* the workflow's consumer for the email and the consumer the call addressed.
ServiceCall(op, args, result, faithful, user_email, username_or_id) ==
  [op |-> op, args |-> args, result |-> result, faithful |-> faithful,
   provisioned |-> WorkflowConsumers(consumers, user_email),
   reached |-> Lookup(consumers, username_or_id)]

\* The emails whose identifier is derived: every string of up to MaxEmailLen
\* characters over letters of both cases, '.', '+', '_' and '@'.
EmailChars == {"a", "J", ".", "+", "_", "@"}
IdentEmails ==
  UNION {[1..n -> EmailChars] : n \in 0..MaxEmailLen}
IdentPaths == {"email_to_kong_username", "create_or_get_kong_consumer", "UserAPIService"}

\* One of the three pieces of code that derive the identifier runs.
Derived(path, email) ==
  CASE path = "email_to_kong_username" -> email_to_kong_username(email)
    [] path = "create_or_get_kong_consumer" -> kong_username_sanitized(email)
    [] OTHER -> UserAPIService_username(email)
derive_identifier(path, email) ==
  /\ out' = [op |-> path, args |-> <<email>>, result |-> Derived(path, email)]
  /\ resp' = NoAnswer
  /\ UNCHANGED <<now, session, cookie, wf, consumers, keys>>

\* kong_utils.get_user_api_keys(user_email)
get_user_api_keys(user_email, faults) ==
  /\ LET kong_username == email_to_kong_username(user_email)
         faithful == GatewayGetKeys(consumers, keys, kong_username)
     IN  \E reply \in {faithful} \cup faults :
           out' = ServiceCall("get_user_api_keys", <<user_email>>,
                              get_user_api_keys_result(_make_request(reply)),
                              reply = faithful, user_email, kong_username)
  /\ resp' = NoAnswer
  /\ UNCHANGED <<now, session, cookie, wf, consumers, keys>>

\* kong_utils.create_user_api_key(user_email)
create_user_api_key(user_email, faults) ==
  /\ Cardinality(keys) < MaxKeys
  /\ LET kong_username == email_to_kong_username(user_email)
         faithful == GatewayCreateKey(consumers, FreshIndex(KeyIndexes(keys)), kong_username)
     IN  \E reply \in {faithful} \cup faults :
           /\ keys' = IF reply = faithful /\ faithful.status = 201
                      THEN keys \cup {faithful.body} ELSE keys
           /\ out' = ServiceCall("create_user_api_key", <<user_email>>,
                                 create_user_api_key_result(_make_request(reply)),
                                 reply = faithful, user_email, kong_username)
  /\ resp' = NoAnswer
  /\ UNCHANGED <<now, session, cookie, wf, consumers>>

\* kong_utils.get_user_kong_info(user_email): get_consumer and, on 200,
\* get_user_api_keys
get_user_kong_info(user_email, faults) ==
  /\ LET kong_username == email_to_kong_username(user_email)
         faithful == GatewayGet(consumers, kong_username)
         faithfulKeys == GatewayGetKeys(consumers, keys, kong_username)
     IN  \E reply \in {faithful} \cup faults :
           LET r == _make_request(reply)
               second == r.kind = "return" /\ r.status = 200
           IN  \E replyKeys \in {faithfulKeys} \cup (IF second THEN faults ELSE {}) :
                 out' = ServiceCall("get_user_kong_info", <<user_email>>,
                          get_user_kong_info_result(r,
                            get_user_api_keys_result(_make_request(replyKeys))),
                          reply = faithful /\ replyKeys = faithfulKeys,
                          user_email, kong_username)
  /\ resp' = NoAnswer
  /\ UNCHANGED <<now, session, cookie, wf, consumers, keys>>

\* UserAPIService.revoke_user_access(email): cleanup_user_access(username),
\* which deletes the consumer
revoke_user_access(email, faults) ==
  /\ LET username == UserAPIService_username(email)
         faithful == GatewayDelete(consumers, username)
         gone == IF faithful.status = 204 THEN Lookup(consumers, username) ELSE {}
     IN  \E reply \in {faithful} \cup faults :
           /\ consumers' = IF reply = faithful THEN consumers \ gone ELSE consumers
           /\ keys' = IF reply = faithful
                      THEN {k \in keys : \A c \in gone : k.consumer # c.id} ELSE keys
           /\ out' = ServiceCall("revoke_user_access", <<email>>,
                                 revoke_user_access_result(_make_request(reply)),
                                 reply = faithful, email, username)
  /\ resp' = NoAnswer
  /\ UNCHANGED <<now, session, cookie, wf>>

\* UserAPIService.setup_user_api_access(user_data): provision_user_api_access
\* (create_consumer, then create_consumer_key) and, for a duplicate,
\* get_user_api_keys(username)
setup_user_api_access(user_data, faults) ==
  /\ Cardinality(keys) < MaxKeys
  /\ LET username == UserAPIService_username(user_data.email)
         faithfulC == GatewayCreate(consumers, FreshIndex(ConsumerIndexes(consumers)),
                        ProvisionPayload(user_data.user_id, username, user_data.email))
     IN  \E replyC \in {faithfulC} \cup faults :
           LET rc == _make_request(replyC)
               cs1 == IF replyC = faithfulC /\ faithfulC.status = 201
                      THEN consumers \cup {faithfulC.body} ELSE consumers
               keyCall == rc.kind = "return" /\ rc.status = 201 /\ Subscript(rc, "id").ok
               faithfulK == GatewayCreateKey(cs1, FreshIndex(KeyIndexes(keys)), username)
           IN  \E replyK \in {faithfulK} \cup (IF keyCall THEN faults ELSE {}) :
                 LET rk == _make_request(replyK)
                     ks1 == IF keyCall /\ replyK = faithfulK /\ faithfulK.status = 201
                            THEN keys \cup {faithfulK.body} ELSE keys
                     result == provision_user_api_access(rc, rk, username)
                     keysCall == ~result.success /\ "duplicate" \in DOMAIN result
                     faithfulG == GatewayGetKeys(cs1, ks1, username)
                 IN  \E replyG \in {faithfulG} \cup (IF keysCall THEN faults ELSE {}) :
                       /\ consumers' = cs1
                       /\ keys' = ks1
                       /\ out' = ServiceCall("setup_user_api_access", <<user_data>>,
                                    setup_user_api_access_result(result,
                                      KSM_get_user_api_keys(_make_request(replyG)), username),
                                    replyC = faithfulC /\ replyK = faithfulK /\ replyG = faithfulG,
                                    user_data.email, username)
                                  @@ [create |-> rc, key |-> rk, provision |-> result]
  /\ resp' = NoAnswer
  /\ UNCHANGED <<now, session, cookie, wf>>

\* UserAPIService.regenerate_user_api_key(email): get_user_api_keys(username),
\* revoke_user_api_key for each key found, then
\* setup_user_api_access({'user_id': username, 'email': email}).  The first
\* call is answered as it should be or with one of faults, the later calls as
\* they should be.
RegeneratePayload(username, email) ==
  [username |-> username, custom_id |-> email, tags |-> {"sbom-saas", "api-user", "user-"}]
regenerate_user_api_key(email, faults) ==
  /\ LET username == UserAPIService_username(email)
         faithfulG == GatewayGetKeys(consumers, keys, username)
         had == {k \in keys : \E c \in Lookup(consumers, username) : k.consumer = c.id}
     IN  \E replyG \in {faithfulG} \cup faults :
           LET keys_result == KSM_get_user_api_keys(_make_request(replyG))
               \* DELETE /consumers/{username}/key-auth/{key_id}, answered 204
               revoked == {k \in had : \E n \in 1..Len(keys_result.keys) :
                                         keys_result.keys[n].id = k.id}
               ks0 == keys \ revoked
               faithfulC == GatewayCreate(consumers, FreshIndex(ConsumerIndexes(consumers)),
                                          RegeneratePayload(username, email))
               rc == _make_request(faithfulC)
               cs1 == IF faithfulC.status = 201 THEN consumers \cup {faithfulC.body}
                      ELSE consumers
               faithfulK == GatewayCreateKey(cs1, FreshIndex(KeyIndexes(keys)), username)
               rk == _make_request(faithfulK)
               ks1 == IF faithfulC.status = 201 /\ faithfulK.status = 201
                      THEN ks0 \cup {faithfulK.body} ELSE ks0
               result == provision_user_api_access(rc, rk, username)
               again == KSM_get_user_api_keys(_make_request(GatewayGetKeys(cs1, ks1, username)))
               done ==
                 IF keys_result.raised
                 THEN [success |-> FALSE, error |-> "Failed to regenerate API key"]
                 ELSE IF keys_result.success
                      THEN setup_user_api_access_result(result, again, username)
                      ELSE [success |-> FALSE, error |-> "No existing API keys found"]
               went == ~keys_result.raised /\ keys_result.success
           IN  /\ consumers' = IF went THEN cs1 ELSE consumers
               /\ keys' = IF went THEN ks1 ELSE keys
               /\ out' = ServiceCall("regenerate_user_api_key", <<email>>, done,
                                     replyG = faithfulG, email, username)
                         @@ [had |-> had, provision |-> result]
  /\ resp' = NoAnswer
  /\ UNCHANGED <<now, session, cookie, wf>>

\* ----------------------------------------------- the client's retries
\* Retry(total=3, status_forcelist=[502, 503, 504], allowed_methods=[...],
\* raise_on_status=False) mounted on the session: what urllib3 does with it.
RetryTotal == 3
StatusForcelist == {502, 503, 504}
AllowedMethods == {"HEAD", "GET", "PUT", "DELETE", "OPTIONS", "TRACE", "POST"}
\* urllib3's default: a Retry-After header on these statuses is honoured.
RetryAfterStatusCodes == {413, 429, 503}

\* One attempt's outcome: a response, with or without a Retry-After header,
\* or no response.
Attempt(reply, retry_after) == [reply |-> reply, retry_after |-> retry_after]

\* Retry.is_retry(method, status_code, has_retry_after), with total retries left
is_retry(method, attempt, total) ==
  /\ attempt.reply.kind = "response"
  /\ method \in AllowedMethods
  /\ \/ attempt.reply.status \in StatusForcelist
     \/ total # 0 /\ attempt.retry_after /\ attempt.reply.status \in RetryAfterStatusCodes

\* A transport failure is retried as long as retries are left (connect and
\* read errors count against total; every method the client uses is allowed).
is_retry_error(method, attempt) ==
  attempt.reply.kind = "transport" /\ method \in AllowedMethods

\* A _make_request call in flight: the attempts sent so far, the retries
\* left, the outcomes that were followed by a re-send, and, once
\* session.request is over, what it produced and what _make_request did with it.
ClientCall(method, pc, sent, total, resent, final, result) ==
  [op |-> "_make_request", args |-> <<method>>, pc |-> pc, sent |-> sent, total |-> total,
   resent |-> resent, final |-> final, result |-> result]
NoResult == Returned(EmptyDict, "dict", 0)

\* _make_request(method, endpoint, json_data) sends its request.
client_send(method) ==
  /\ out.op \in {"", "consumer_exists"} \/ (out.op = "_make_request" /\ out.pc = "done")
  /\ out' = ClientCall(method, "wait", 1, RetryTotal, {}, Attempt(TransportFailure, FALSE), NoResult)
  /\ resp' = NoAnswer
  /\ UNCHANGED <<now, session, cookie, wf, consumers, keys>>

\* The attempt in flight ends: the request is sent again, or session.request
\* returns or raises and _make_request finishes.
client_attempt(attempt) ==
  /\ out.op = "_make_request" /\ out.pc = "wait"
  /\ LET method == out.args[1]
         again == is_retry(method, attempt, out.total) \/ is_retry_error(method, attempt)
         exhausted == out.total - 1 < 0
     IN  IF again /\ ~exhausted
         THEN out' = [out EXCEPT !.sent = @ + 1, !.total = @ - 1,
                                 !.resent = @ \cup {[status |-> attempt.reply.status,
                                                     retry_after |-> attempt.retry_after]}]
         ELSE out' = [out EXCEPT !.pc = "done", !.final = attempt,
                                 !.result = _make_request(attempt.reply)]
  /\ resp' = NoAnswer
  /\ UNCHANGED <<now, session, cookie, wf, consumers, keys>>

\* consumer_exists, given how its get_consumer call ended: a boolean, or the
\* error passed on as it is.
Said(v) == [kind |-> "return", v |-> v, err |-> NoResult]
Reraised(r) == [kind |-> "raise", v |-> FALSE, err |-> r]

\* consumer_exists answering False to every KongAdminAPIError
consumer_exists_swallow_all(r) ==
  IF r.kind = "return" THEN Said(r.status = 200)
  ELSE IF r.exc = "KongAdminAPIError" THEN Said(FALSE) ELSE Reraised(r)

consumer_exists(r) ==
  IF r.kind = "return" THEN Said(r.status = 200)
  ELSE IF r.exc = "KongAdminAPIError" /\ r.status = 404 THEN Said(FALSE) ELSE Reraised(r)

\* consumer_exists(username_or_id) finishes once its get_consumer call, a
\* GET through _make_request, has ended.
consumer_exists_end ==
  /\ out.op = "_make_request" /\ out.pc = "done" /\ out.args[1] = "GET"
  /\ out' = [op |-> "consumer_exists", args |-> <<>>, call |-> out,
             result |-> consumer_exists(out.result)]
  /\ resp' = NoAnswer
  /\ UNCHANGED <<now, session, cookie, wf, consumers, keys>>

\* What an attempt can end in.
AttemptStatuses == {200, 201, 204, 400, 404, 409, 413, 429, 500, 502, 503, 504}
Attempts ==
  {Attempt(HttpResponse(st, "dict", [message |-> <<"UNIQUE violation">>]), ra) :
     st \in AttemptStatuses, ra \in BOOLEAN}
  \cup {Attempt(HttpResponse(st, "dict", [id |-> ConsumerIdOf(1)]), FALSE) : st \in {200, 201}}
  \cup {Attempt(HttpResponse(st, "text", EmptyDict), FALSE) : st \in AttemptStatuses}
  \cup {Attempt(HttpResponse(st, "list", EmptyDict), FALSE) : st \in {200, 400, 404, 409, 500}}
  \cup {Attempt(TransportFailure, FALSE)}
Methods == {"GET", "POST", "DELETE"}

\* ----------------------------------- concurrent provisioning, with retries
\* create_or_get_kong_consumer invoked by requests that are handled at the
\* same time, for one email, each of its gateway calls sent through the
\* retrying session attempt by attempt.  The session retries as configured
\* (RetryTotal) or, for comparison, not at all.
Invocations == {1, 2}
RetryFree == 0
Started(total) == [pc |-> "lookup", cid |-> Nothing, left |-> total, resent |-> {}]
WorkflowRuns(user_email, total, runs) ==
  [op |-> "create_or_get_kong_consumer", args |-> <<user_email>>, total |-> total,
   runs |-> runs]

\* What may happen to one attempt on its way: the gateway's answer is
\* replaced by a 503 from the proxy in front of it, or is lost.
TransientFaults == {HttpResponse(503, "text", EmptyDict), TransportFailure}
NoFault == [kind |-> "none", status |-> 0, form |-> "text", body |-> EmptyDict]

\* The invocations start.
workflows_invoke(user_email, total) ==
  /\ out.op = ""
  /\ out' = WorkflowRuns(user_email, total, [i \in Invocations |-> Started(total)])
  /\ resp' = NoAnswer
  /\ UNCHANGED <<now, session, cookie, wf, consumers, keys>>

\* The method of each gateway call and what the gateway would answer to it.
CallMethod(pc) == IF pc = "lookup" THEN "GET" ELSE "POST"
FaithfulReply(pc, user_email) ==
  CASE pc = "lookup" -> GatewayGet(consumers, LookupKey(user_email))
    [] pc = "create" -> GatewayCreate(consumers, FreshIndex(ConsumerIndexes(consumers)),
                                      CreatePayload(user_email))
    [] pc = "key" -> GatewayCreateKey(consumers, FreshIndex(KeyIndexes(keys)),
                                      KeyOwner(user_email))

\* One attempt of the call invocation i is making: the gateway carries the
\* request out or never sees it, the attempt ends in the gateway's answer or
\* in a fault, and the session sends the request again or the workflow goes
\* on with the outcome.
run_attempt(i, fault, applied) ==
  /\ out.op = "create_or_get_kong_consumer"
  /\ out.runs[i].pc \in {"lookup", "create", "key"}
  /\ LET run == out.runs[i]
         user_email == out.args[1]
         faithful == FaithfulReply(run.pc, user_email)
         reply == IF fault = NoFault THEN faithful ELSE fault
         r == _make_request(reply)
         again == /\ \/ is_retry(CallMethod(run.pc), Attempt(reply, FALSE), run.left)
                     \/ is_retry_error(CallMethod(run.pc), Attempt(reply, FALSE))
                  /\ run.left - 1 >= 0
         step0 == CASE run.pc = "lookup" -> AfterLookup(r)
                    [] run.pc = "create" -> AfterCreate(r)
                    [] run.pc = "key" -> AfterKey(r, run.cid)
         step == OuterExcept(step0)
     IN  /\ fault = NoFault => applied
         /\ consumers' = IF run.pc = "create" /\ applied /\ faithful.status = 201
                         THEN consumers \cup {faithful.body} ELSE consumers
         /\ keys' = IF run.pc = "key" /\ applied /\ faithful.status = 201
                    THEN keys \cup {faithful.body} ELSE keys
         /\ out' = [out EXCEPT !.runs[i] =
                      IF again
                      THEN [run EXCEPT !.left = @ - 1, !.resent = @ \cup {run.pc}]
                      ELSE [run EXCEPT !.pc = IF step.next \in {"return", "raise"}
                                              THEN "returned" ELSE step.next,
                                       !.cid = step.result, !.left = out.total]]
  /\ resp' = NoAnswer
  /\ UNCHANGED <<now, session, cookie, wf>>

\* ------------------------------- the workflow as a function of the answers
\* create_or_get_kong_consumer given the answers the session produces for its
\* get_consumer, create_consumer and create_consumer_key calls, in that
\* order: the calls it makes and what it returns.
create_or_get_kong_consumer(answers) ==
  LET s1 == OuterExcept(AfterLookup(_make_request(answers[1])))
      s2 == OuterExcept(AfterCreate(_make_request(answers[2])))
      s3 == OuterExcept(AfterKey(_make_request(answers[3]), s2.result))
  IN  IF s1.next # "create" THEN [calls |-> <<"get">>, end |-> s1]
      ELSE IF s2.next # "key" THEN [calls |-> <<"get", "create">>, end |-> s2]
      ELSE [calls |-> <<"get", "create", "key">>, end |-> s3]

\* The answers a call can get: each status with an object carrying one
\* message or another, with a body that is no JSON, with a JSON array and,
\* for a success, with an object carrying the consumer's id among more or
\* fewer other fields; or no answer.
AnswerBodies(st) ==
  { HttpResponse(st, "dict", [message |-> <<"UNIQUE violation">>]),
    HttpResponse(st, "dict", [message |-> <<"required">>]),
    HttpResponse(st, "text", EmptyDict),
    HttpResponse(st, "list", EmptyDict) }
  \cup IF st \in {200, 201}
       THEN { HttpResponse(st, "dict", [id |-> ConsumerIdOf(1)]),
              HttpResponse(st, "dict", [id |-> ConsumerIdOf(1), tags |-> {"free"}]) }
       ELSE {}
LookupAnswers == UNION {AnswerBodies(st) : st \in {200, 404, 500}} \cup {TransportFailure}
CreateAnswers == UNION {AnswerBodies(st) : st \in {201, 409, 500}} \cup {TransportFailure}
KeyAnswers == UNION {AnswerBodies(st) : st \in {201, 404, 500}} \cup {TransportFailure}

\* One invocation of the workflow against given answers.
workflow_run(answers) ==
  /\ out.op = ""
  /\ out' = [op |-> "create_or_get_kong_consumer", args |-> answers,
             result |-> create_or_get_kong_consumer(answers)]
  /\ resp' = NoAnswer
  /\ UNCHANGED <<now, session, cookie, wf, consumers, keys>>

\* -------------------------------------------------- the Stripe webhook
\* Exception messages are sequences of lower-cased words; 'w' in str(e).lower()
\* holds when one of the words contains w.
WordsWith(w) ==
  CASE w = "signature" -> {"signature", "signatures"}
    [] w = "verification" -> {"verification"}
    [] OTHER -> {w}
Mentions(message, w) == \E n \in 1..Len(message) : message[n] \in WordsWith(w)

\* `not v` is false: v is neither None nor the empty string.
Truthy(v) == v # None /\ v # ""

\* The event types process_webhook_event has a handler for.
HandledTypes ==
  {"payment_intent.succeeded", "payment_intent.payment_failed",
   "customer.subscription.created", "customer.subscription.updated",
   "customer.subscription.deleted", "invoice.payment_succeeded", "invoice.payment_failed"}

\* StripeWebhookService.process_webhook_event(event): the handler for the
\* event's type runs, if there is one; handler_raises is whether it raises.
process_webhook_event(event, handler_raises) ==
  IF event.type \in HandledTypes
  THEN [dispatched |-> TRUE, success |-> ~handler_raises]
  ELSE [dispatched |-> FALSE, success |-> TRUE]

\* The answer of the endpoint and what ran on the way.
Webhook(status, parsed, verify_called, verified, dispatched) ==
  [status |-> status, parsed |-> parsed, verify_called |-> verify_called,
   verified |-> verified, dispatched |-> dispatched]

\* except Exception as e (webhook_routes.py 64-71)
WebhookExcept(message, parsed, verify_called) ==
  IF Mentions(message, "signature") \/ Mentions(message, "verification")
  THEN Webhook(400, parsed, verify_called, FALSE, FALSE)
  ELSE Webhook(500, parsed, verify_called, FALSE, FALSE)

\* json.loads(payload) on the raw bytes: a value, JSONDecodeError, or, for
\* bytes that are not UTF-8, UnicodeDecodeError with its message.
NotUtf8Message == <<"utf-8", "codec", "can't", "decode", "byte">>

\* stripe_webhook(): the request has a payload and maybe a Stripe-Signature
\* header; verify is what stripe.Webhook.construct_event does with them.
stripe_webhook_result(endpoint_secret, signature, payload, verify, event, handler_raises) ==
  IF ~Truthy(endpoint_secret) THEN Webhook(500, FALSE, FALSE, FALSE, FALSE)
  ELSE IF ~Truthy(signature) THEN Webhook(400, FALSE, FALSE, FALSE, FALSE)
  ELSE IF payload = "not_json" THEN Webhook(400, FALSE, FALSE, FALSE, FALSE)
  ELSE IF payload = "not_utf8" THEN WebhookExcept(NotUtf8Message, FALSE, FALSE)
  ELSE IF verify.raises THEN WebhookExcept(verify.message, TRUE, TRUE)
  ELSE LET done == process_webhook_event(event, handler_raises)
       IN  Webhook(IF done.success THEN 200 ELSE 500, TRUE, TRUE, TRUE, done.dispatched)

\* POST /stripe/webhook
stripe_webhook(endpoint_secret, signature, payload, verify, event, handler_raises) ==
  /\ out' = [op |-> "stripe_webhook",
             args |-> [endpoint_secret |-> endpoint_secret, signature |-> signature,
                       payload |-> payload, verify |-> verify, event |-> event,
                       handler_raises |-> handler_raises],
             result |-> stripe_webhook_result(endpoint_secret, signature, payload, verify,
                                              event, handler_raises)]
  /\ resp' = NoAnswer
  /\ UNCHANGED <<now, session, cookie, wf, consumers, keys>>

\* The requests and the configuration: the secret set or not, the header
\* absent, empty or present, the payload JSON or not, the verification
\* passing or raising SignatureVerificationError with one of its messages.
EndpointSecrets == {None, "", "whsec"}
SignatureHeaders == {None, "", "t=1,v1=sig"}
Payloads == {"json", "not_json", "not_utf8"}
Verified == [raises |-> FALSE, message |-> <<>>]
VerifyOutcomes ==
  { Verified,
    [raises |-> TRUE,
     message |-> <<"no", "signatures", "found", "matching", "the", "expected", "signature">>],
    [raises |-> TRUE,
     message |-> <<"unable", "to", "extract", "timestamp", "and", "signatures">>],
    [raises |-> TRUE, message |-> <<"timestamp", "outside", "the", "tolerance", "zone">>] }
Events == {[type |-> t] : t \in {"payment_intent.succeeded", "invoice.payment_failed", "charge.refunded"}}

\* ------------------------------------------------------------ inputs
\* The claims the identity provider hands to generate_jwt_token.
UserData(user_info) ==
  [sub |-> user_info.id, email |-> user_info.email, name |-> user_info.name,
   picture |-> Get(user_info, "picture")]
ClaimSets == {UserData(ui) : ui \in UserInfos}
IssueTimes == {t \in 0..MaxTime : t % TickHours = 0}

\* Every token the server can have minted within the bounds.
Minted == {generate_jwt_token(c, t) : c \in ClaimSets, t \in IssueTimes}

\* What a client can make of a token without the secret: sign it with another
\* key, flip a bit of the signature segment, declare another algorithm.
Forge(token, key) == [token EXCEPT !.sig = Sign(key, token.alg, token.payload)]
Tamper(token) == [token EXCEPT !.sig.flip = TRUE]
AlgNone(token) == [token EXCEPT !.alg = "none", !.sig = NoSig]

\* Tokens signed with the secret that generate_jwt_token never mints: an
\* empty payload, and a payload without exp.
Unusual ==
  { jwt_encode(EmptyDict, JWT_SECRET_KEY, JWT_ALGORITHM),
    jwt_encode([email |-> <<"a", "@", "x">>, iat |-> 0], JWT_SECRET_KEY, JWT_ALGORITHM) }

AllTokens ==
  Minted \cup {Forge(t, "guess") : t \in Minted} \cup {Tamper(t) : t \in Minted}
         \cup {AlgNone(t) : t \in Minted} \cup Unusual
         \cup {Garbage(1), Garbage(2), Garbage(3)}

AllCookies == {NoCookie, Cookie(EmptyString)} \cup {Cookie(t) : t \in AllTokens}
AllHeaders ==
  {NoHeader, Header("Bearer", <<>>), Header("Bearer", <<EmptyString>>)}
  \cup {Header(sch, <<t>>) : sch \in {"Bearer", "Basic", "bearer"}, t \in AllTokens}
  \cup {Header("Bearer", <<EmptyString, t>>) : t \in Minted}
  \cup {Header("Bearer", <<t, Garbage(1)>>) : t \in Minted}

\* What the holder of a browser can send: the token it was last given, whether
\* or not its jar still holds it, a tampered copy of it, or nothing.
HeldTokens(b) == IF TruthyStr(cookie[b].value) THEN {cookie[b].value} ELSE {}
HeldCookies(b) ==
  {Jar(b)} \cup {Cookie(t) : t \in HeldTokens(b)} \cup {Cookie(Tamper(t)) : t \in HeldTokens(b)}
HeldHeaders(b) ==
  {NoHeader} \cup {Header("Bearer", <<t>>) : t \in HeldTokens(b)}
             \cup {Header("Bearer", <<Forge(t, "guess")>>) : t \in HeldTokens(b)}

\* ---------------------------------------------------- specifications
\* The whole service: logins, callbacks with their provisioning workflow
\* against a gateway that may misbehave, logouts and guarded requests.
Next ==
  \/ Tick
  \/ \E b \in Browsers, s \in OAuthStates : login(b, s)
  \/ \E b \in Browsers : logout(b)
  \/ \E b \in Browsers : \E c \in HeldCookies(b) : dashboard(c)
  \/ \E b \in Browsers : \E h \in HeldHeaders(b) : api_profile(h)
  \/ \E b \in Browsers, s \in StateParams, code \in CodeParams,
        idp \in IdpOutcomes, ui \in UserInfos : callback_begin(b, s, code, idp, ui)
  \/ \E b \in Browsers : wf_lookup(b, FewFaultReplies)
  \/ \E b \in Browsers : wf_create(b, FewFaultReplies)
  \/ \E b \in Browsers : wf_key(b, FewFaultReplies)
  \/ \E b \in Browsers : callback_end(b)

Spec == Init /\ [][Next]_vars

\* The token codec and the two guards on their own: every request a client
\* can put together, at every time.
NextGate ==
  \/ Tick
  \/ \E c \in AllCookies : dashboard(c)
  \/ \E h \in AllHeaders : api_profile(h)

SpecGate == Init /\ [][NextGate]_vars

\* Logins and callbacks at one instant, with the provisioning workflow against
\* every kind of gateway misbehaviour.
NextWf ==
  \/ \E b \in Browsers, s \in OAuthStates : login(b, s)
  \/ \E b \in Browsers, s \in StateParams, code \in CodeParams,
        idp \in IdpOutcomes, ui \in UserInfos : callback_begin(b, s, code, idp, ui)
  \/ \E b \in Browsers : wf_lookup(b, LookupFaults)
  \/ \E b \in Browsers : wf_create(b, CreateFaults)
  \/ \E b \in Browsers : wf_key(b, KeyFaults)
  \/ \E b \in Browsers : callback_end(b)

SpecWf == Init /\ [][NextWf]_vars

\* Logins and callbacks against a gateway that enforces unique usernames and
\* custom ids and always answers as it should.
NextLogins ==
  \/ \E b \in Browsers, s \in OAuthStates : login(b, s)
  \/ \E b \in Browsers, s \in StateParams, code \in CodeParams,
        idp \in IdpOutcomes, ui \in UserInfos : callback_begin(b, s, code, idp, ui)
  \/ \E b \in Browsers : wf_lookup(b, NoFaults)
  \/ \E b \in Browsers : wf_create(b, NoFaults)
  \/ \E b \in Browsers : wf_key(b, NoFaults)
  \/ \E b \in Browsers : callback_end(b)

SpecLogins == Init /\ [][NextLogins]_vars

\* The service functions next to the logins: the callback's provisioning
\* against a gateway that answers as it should, and the functions of
\* kong_utils.py, KongServiceManager and UserAPIService against one that may not.
ServiceFaults == {TransportFailure}
TokenData == {[user_id |-> ui.id, email |-> ui.email, name |-> ui.name] : ui \in UserInfos}
NextSvc ==
  \/ \E b \in Browsers, ui \in UserInfos : callback_begin(b, session[b], "code", "ok", ui)
  \/ \E b \in Browsers : wf_lookup(b, NoFaults)
  \/ \E b \in Browsers : wf_create(b, NoFaults)
  \/ \E b \in Browsers : wf_key(b, NoFaults)
  \/ \E b \in Browsers : callback_end(b)
  \/ \E email \in Emails : get_user_api_keys(email, ServiceFaults)
  \/ \E email \in Emails : create_user_api_key(email, ServiceFaults)
  \/ \E email \in Emails : get_user_kong_info(email, ServiceFaults)
  \/ \E email \in Emails : revoke_user_access(email, ServiceFaults)
  \/ \E user_data \in TokenData : setup_user_api_access(user_data, ServiceFaults)
  \/ \E email \in Emails : regenerate_user_api_key(email, ServiceFaults)

SpecSvc == Init /\ [][NextSvc]_vars

\* The identifier derivation on its own: each of the three pieces of code, on
\* every email up to a length.
NextIdent == \E path \in IdentPaths, email \in IdentEmails : derive_identifier(path, email)

SpecIdent == Init /\ [][NextIdent]_vars

\* The admin client on its own: calls of every method, each attempt answered
\* in every way.
NextClient ==
  \/ \E method \in Methods : client_send(method)
  \/ \E attempt \in Attempts : client_attempt(attempt)
  \/ consumer_exists_end

SpecClient == Init /\ [][NextClient]_vars

\* Concurrent invocations of the provisioning workflow for one email, through
\* a session that retries and through one that does not.
AttemptFaults == TransientFaults \cup {NoFault}
RetryTotals == {RetryFree, RetryTotal}
NextRetry ==
  \/ \E user_email \in Emails, total \in RetryTotals : workflows_invoke(user_email, total)
  \/ \E i \in Invocations, fault \in AttemptFaults, applied \in BOOLEAN :
       run_attempt(i, fault, applied)

SpecRetry == Init /\ [][NextRetry]_vars

\* The workflow against every combination of answers to its three calls.
NextDispatch ==
  \E a1 \in LookupAnswers, a2 \in CreateAnswers, a3 \in KeyAnswers : workflow_run(<<a1, a2, a3>>)

SpecDispatch == Init /\ [][NextDispatch]_vars

\* The webhook endpoint on its own, on every request.
NextWebhook ==
  \E endpoint_secret \in EndpointSecrets, signature \in SignatureHeaders, payload \in Payloads,
     verify \in VerifyOutcomes, event \in Events, handler_raises \in BOOLEAN :
    stripe_webhook(endpoint_secret, signature, payload, verify, event, handler_raises)

SpecWebhook == Init /\ [][NextWebhook]_vars

\* ------------------------------------------------------------ claims
\* What the spec calls a valid token at hour t, stated without the codec: three
\* segments, the configured algorithm, the signature the secret gives for
\* this payload, and an expiry that has not passed.
SignedBySecret(token) ==
  /\ token.segs = 3
  /\ token.alg = JWT_ALGORITHM
  /\ token.sig.key = JWT_SECRET_KEY /\ token.sig.alg = token.alg
  /\ token.sig.payload = token.payload /\ ~token.sig.flip
ExpiredAt(token, t) ==
  "exp" \in DOMAIN token.payload /\ token.payload["exp"] < t * SecondsPerHour
LiveAt(token, t) ==
  "exp" \in DOMAIN token.payload => token.payload["exp"] > t * SecondsPerHour

\* The token a guarded request presents, if any: the cookie's value, or the
\* second space-separated piece of the Authorization header.
Presents(req, token) ==
  \/ req.route = "dashboard" /\ req.cookies.present /\ req.cookies.value = token
  \/ req.route = "api" /\ req.header.present /\ Len(req.header.parts) >= 1
       /\ req.header.parts[1] = token
Guarded == resp.req.route \in {"dashboard", "api"}

\* C1: a token whose exp lies before the current time is never accepted:
\* verify_jwt_token returns None for it at every later time, whatever its
\* claims, and no guard runs its handler for a request that presents it.
C1_ExpiredNeverAccepted ==
  /\ \A token \in AllTokens :
       ExpiredAt(token, now) => verify_jwt_token(token, now).kind = "none"
  /\ \A token \in AllTokens :
       Guarded /\ Presents(resp.req, token) /\ ExpiredAt(token, resp.at)
         => ~resp.res.ran /\ resp.res.status \in {302, 401}

\* C1 witness: a token the server minted, presented after its expiry, is
\* answered with the redirect to login.
C1_Witness ==
  \E token \in Minted :
    /\ resp.req.route = "dashboard" /\ Presents(resp.req, token)
    /\ ExpiredAt(token, resp.at) /\ resp.res.status = 302

\* C2: verify_jwt_token fails closed and never raises: a token that is
\* malformed, not signed with the secret (tampered in its signature
\* included) or expired gives None, and no guarded request ends in an
\* exception (a 500).
C2_FailsClosedNoRaise ==
  /\ \A token \in AllTokens \cup {EmptyString} :
       /\ verify_jwt_token(token, now).kind # "raise"
       /\ ~SignedBySecret(token) \/ ExpiredAt(token, now)
            => verify_jwt_token(token, now).kind = "none"
  /\ Guarded => resp.res.status # 500

\* C2 witness: a request with a token whose signature segment was tampered
\* with is answered 401.
C2_Witness ==
  \E token \in Minted :
    /\ resp.req.route = "api" /\ resp.req.header.scheme = "Bearer"
    /\ Presents(resp.req, Tamper(token)) /\ ~ExpiredAt(token, resp.at)
    /\ resp.res.status = 401

\* C3: round trip: a token generate_jwt_token made from claims c, verified
\* before its expiry, gives a payload with c's email, name and subject id (as
\* user_id); a guard that admits such a token hands that payload on.
C3_RoundTrip ==
  /\ \A c \in ClaimSets, t \in IssueTimes :
       t <= now /\ now < t + JWT_EXPIRATION_HOURS =>
         LET v == verify_jwt_token(generate_jwt_token(c, t), now)
         IN  /\ v.kind = "payload"
             /\ v.payload["email"] = c.email
             /\ v.payload["name"] = c.name
             /\ v.payload["user_id"] = c.sub
  /\ \A c \in ClaimSets, t \in IssueTimes :
       Guarded /\ Presents(resp.req, generate_jwt_token(c, t)) /\ resp.res.ran =>
         /\ resp.res.user["email"] = c.email
         /\ resp.res.user["name"] = c.name
         /\ resp.res.user["user_id"] = c.sub

\* C3 witness: a minted token presented some hours after it was issued, and
\* the handler got the subject id it was made from.
C3_Witness ==
  \E c \in ClaimSets, t \in IssueTimes :
    /\ Guarded /\ Presents(resp.req, generate_jwt_token(c, t))
    /\ t < resp.at /\ resp.res.ran /\ resp.res.user["user_id"] = c.sub

\* C5: the header guard runs the handler only for an Authorization header
\* "Bearer <token>" whose token is valid, and then passes the token's claims
\* as the user; every other request (no header, another scheme, an invalid or
\* expired token) is answered 401 with a JSON body that has the key error,
\* and the handler does not run.
C5_HeaderGuard ==
  resp.req.route = "api" =>
    LET h == resp.req.header
        bearer == h.present /\ h.scheme = "Bearer" /\ Len(h.parts) >= 1
    IN  /\ resp.res.ran =>
             /\ bearer
             /\ SignedBySecret(h.parts[1]) /\ ~ExpiredAt(h.parts[1], resp.at)
             /\ resp.res.user = h.parts[1].payload
             /\ resp.res.status = 200
        /\ ~resp.res.ran => resp.res.status = 401 /\ "error" \in resp.res.bodyKeys
        /\ ~bearer => ~resp.res.ran
        /\ bearer /\ (~SignedBySecret(h.parts[1]) \/ ExpiredAt(h.parts[1], resp.at))
             => ~resp.res.ran

\* C5 witnesses: a request without the header is answered 401, and (in the
\* same check) one with another scheme carrying a valid token is too.
C5_Witness ==
  /\ resp.req.route = "api" /\ resp.res.status = 401 /\ "error" \in resp.res.bodyKeys
  /\ resp.req.header.present /\ resp.req.header.scheme = "Basic"
  /\ \E token \in Minted :
       Presents(resp.req, token) /\ LiveAt(token, resp.at)

\* C6: the cookie guard runs the handler only when the auth_token cookie is
\* there and valid, and then passes its claims as the user; a request with no
\* cookie, or an invalid or expired one, is redirected (302) to login and the
\* handler does not run.
C6_CookieGuard ==
  resp.req.route = "dashboard" =>
    LET c == resp.req.cookies
    IN  /\ resp.res.ran =>
             /\ c.present
             /\ SignedBySecret(c.value) /\ ~ExpiredAt(c.value, resp.at)
             /\ resp.res.user = c.value.payload
             /\ resp.res.status = 200
        /\ ~resp.res.ran => resp.res.status = 302 /\ resp.res.location = "login"
        /\ ~c.present => ~resp.res.ran
        /\ c.present /\ (~SignedBySecret(c.value) \/ ExpiredAt(c.value, resp.at))
             => ~resp.res.ran

\* C6 witness: a request without the cookie is redirected to login.
C6_Witness ==
  /\ resp.req.route = "dashboard" /\ ~resp.req.cookies.present
  /\ resp.res.status = 302 /\ resp.res.location = "login" /\ ~resp.res.ran

\* C4: whether a guard admits a token depends on the token, the secret and
\* the time only: in every state the service reaches, after any logins,
\* callbacks, provisioning and logouts, a guarded request that presents a
\* token signed with the secret, not yet expired and with claims in it is
\* admitted, and a request that is admitted presents such a token.  In
\* particular the token a browser held when it logged out keeps being
\* admitted.
ProperlyPresents(req, token) ==
  Presents(req, token) /\ (req.route = "api" => req.header.scheme = "Bearer")
C4_ValidityIsStateless ==
  Guarded =>
    /\ \A token \in AllTokens :
         /\ ProperlyPresents(resp.req, token) /\ SignedBySecret(token)
         /\ LiveAt(token, resp.at) /\ DOMAIN token.payload # {}
         => resp.res.ran
    /\ resp.res.ran =>
         \E token \in AllTokens :
           /\ ProperlyPresents(resp.req, token) /\ SignedBySecret(token)
           /\ ~ExpiredAt(token, resp.at)

\* C4 witness: after a logout emptied the jar, and hours after the token was
\* minted, a bearer request with that token is admitted.
C4_Witness ==
  \E b \in Browsers :
    /\ ~cookie[b].present /\ TruthyStr(cookie[b].value)
    /\ resp.req.route = "api" /\ Presents(resp.req, cookie[b].value)
    /\ cookie[b].value.payload["iat"] < resp.at * SecondsPerHour
    /\ resp.res.ran /\ resp.res.status = 200

\* C7: what the callback answers does not depend on the gateway: once the
\* state and code checks, the token exchange and the user-info request have
\* succeeded, no exception leaves the provisioning workflow, and the
\* callback's answer is the 302 to the dashboard with an auth_token cookie
\* that is valid at that moment, whatever the gateway did on the calls made.
C7_CallbackIgnoresGateway ==
  /\ \A b \in Browsers : wf[b].pc # "raised"
  /\ \A b \in Browsers : wf[b].pc \in {"idle", "lookup", "create", "key", "mint"}
  /\ resp.req.route = "callback" /\ resp.res.status # 400 =>
       /\ resp.res.status = 302 /\ resp.res.location = "dashboard"
       /\ resp.res.setCookie.present
       /\ SignedBySecret(resp.res.setCookie.value)
       /\ LiveAt(resp.res.setCookie.value, resp.at)
       /\ verify_jwt_token(resp.res.setCookie.value, resp.at).kind = "payload"

\* C7 witness: a callback during which a gateway call got no response or a
\* 500 ends in the redirect with the cookie.
C7_Witness ==
  /\ resp.req.route = "callback" /\ resp.res.status = 302
  /\ resp.res.setCookie.present
  /\ \E i \in DOMAIN resp.calls : resp.calls[i].status \in {0, 500}

\* C8: create_or_get_kong_consumer never raises to its caller: whatever the
\* gateway answers or throws on getConsumer, createConsumer and
\* createConsumerKey, for either email, no exception leaves the workflow, it
\* is over after at most the three calls in that order, and what it returns
\* is a consumer id or none.
WorkflowOps == <<"get", "create", "key">>
C8_WorkflowNeverRaises ==
  \A b \in Browsers :
    /\ wf[b].pc # "raised"
    /\ Len(wf[b].calls) <= 3
    /\ \A i \in DOMAIN wf[b].calls : wf[b].calls[i].op = WorkflowOps[i]
    /\ wf[b].pc = "lookup" => Len(wf[b].calls) = 0
    /\ wf[b].pc = "create" => Len(wf[b].calls) = 1
    /\ wf[b].pc = "key" => Len(wf[b].calls) = 2
    /\ wf[b].pc = "mint" =>
         /\ Len(wf[b].calls) >= 1
         /\ \/ wf[b].cid = Nothing
            \/ \E i \in DOMAIN wf[b].calls : wf[b].cid = wf[b].calls[i].id /\ wf[b].cid.some

\* C8 witness: the workflow has returned none after a call ended in an
\* exception that is no KongAdminAPIError.
C8_Witness ==
  \E b \in Browsers :
    /\ wf[b].pc = "mint" /\ wf[b].cid = Nothing
    /\ \E i \in DOMAIN wf[b].calls :
         wf[b].calls[i].exc \in {"AttributeError", "KeyError", "TypeError"}

\* C9: Present short-circuit: when getConsumer answers 200 the workflow
\* returns the id in that answer and makes no other gateway call in that
\* invocation, neither createConsumer nor createConsumerKey, also when the
\* consumer has no key.
LookupSaid200(calls) ==
  Len(calls) >= 1 /\ calls[1].op = "get" /\ calls[1].status = 200
C9_PresentShortCircuit ==
  \A b \in Browsers :
    LookupSaid200(wf[b].calls) =>
      /\ Len(wf[b].calls) = 1
      /\ wf[b].pc = "mint"
      /\ wf[b].calls[1].id.some => wf[b].cid = wf[b].calls[1].id

\* C9 witness: the lookup found a consumer that has no key, and the workflow
\* returned its id after that single call.
C9_Witness ==
  \E b \in Browsers :
    /\ LookupSaid200(wf[b].calls) /\ wf[b].calls[1].faithful
    /\ wf[b].pc = "mint" /\ wf[b].cid.some
    /\ \E c \in consumers : c.id = wf[b].cid.v /\ c.username = wf[b].user.email
    /\ ~\E k \in keys : k.consumer = wf[b].cid.v

\* C10: idempotent convergence: an invocation that saw getConsumer 404 and
\* createConsumer 201 from a gateway answering in Kong's format returns the
\* id of that 201, not none; and in the next invocation for the same user,
\* when the gateway answers the lookup from what it stores, the lookup under
\* the same key is a 200 with that same id, that id is returned, and there
\* is no createConsumer call.
SameLookupKey(b) == LookupKey(wf[b].user.email) = LookupKey(wf[b].prior.email)
KeyCallOutcome(calls) ==
  IF Len(calls) < 3 THEN "not called"
  ELSE IF calls[3].exc = "" /\ calls[3].status = 201 THEN "201"
  ELSE IF calls[3].exc = "" THEN "other status"
  ELSE IF calls[3].exc = "KongAdminAPIError" THEN "typed error"
  ELSE "other exception"
C11_KeyCreationBestEffort ==
  \A b \in Browsers :
    /\ \A i \in DOMAIN wf[b].calls : wf[b].calls[i].op \in {"get", "create", "key"}
    /\ wf[b].pc \in {"key", "mint"} /\ Len(wf[b].calls) >= 2 /\ wf[b].calls[2].faithful
       /\ wf[b].calls[2].status = 201
       => \E c \in consumers : Some(c.id) = wf[b].calls[2].id
    /\ wf[b].pc = "mint"
       /\ KeyCallOutcome(wf[b].calls) \in {"201", "other status", "typed error"}
       => /\ wf[b].calls[2].op = "create" /\ wf[b].calls[2].status = 201
          /\ wf[b].cid.some /\ wf[b].cid = wf[b].calls[2].id

\* C11 witness: the key call ended in a KongAdminAPIError and the workflow
\* has returned the id of the consumer it created, which the gateway holds.
C11_Witness ==
  \E b \in Browsers :
    /\ wf[b].pc = "mint" /\ KeyCallOutcome(wf[b].calls) = "typed error"
    /\ wf[b].cid.some /\ \E c \in consumers : c.id = wf[b].cid.v
    /\ keys = {}

\* C12: a lookup that fails with anything but 404 (KongAdminAPIError 400,
\* 409 or 0, or a returned status other than 200) ends the workflow with none
\* after that one call; a 404 lookup followed by a createConsumer that does
\* not return 201 ends it with none after those two calls, without a key call.
C12_FailureReturnsNone ==
  \A b \in Browsers :
    /\ Len(wf[b].calls) >= 1 /\ wf[b].calls[1].status \notin {200, 404}
       => Len(wf[b].calls) = 1 /\ wf[b].pc = "mint" /\ wf[b].cid = Nothing
    /\ /\ Len(wf[b].calls) >= 2 /\ wf[b].calls[1].status = 404
       /\ ~(wf[b].calls[2].status = 201 /\ wf[b].calls[2].exc = "")
       => Len(wf[b].calls) = 2 /\ wf[b].pc = "mint" /\ wf[b].cid = Nothing

\* C12 witness: after a 404 lookup createConsumer raised the typed error of a
\* 400, and the workflow has returned none.
C12_Witness ==
  \E b \in Browsers :
    /\ wf[b].pc = "mint" /\ wf[b].cid = Nothing /\ Len(wf[b].calls) = 2
    /\ wf[b].calls[1].status = 404
    /\ wf[b].calls[2].status = 400 /\ wf[b].calls[2].exc = "KongAdminAPIError"

\* C13: a 409 from createConsumer is treated as already provisioned: a
\* workflow whose createConsumer raised the typed error of a 409 returns a
\* consumer id, not none.
C13_ConflictIsProvisioned ==
  \A b \in Browsers :
    /\ wf[b].pc = "mint" /\ Len(wf[b].calls) >= 2
    /\ wf[b].calls[2].op = "create" /\ wf[b].calls[2].status = 409
    /\ wf[b].calls[2].exc = "KongAdminAPIError"
    => wf[b].cid.some

\* C14: against a gateway that enforces unique usernames and custom ids and
\* answers every call as it should, after any sequence of logins the gateway
\* holds exactly one consumer for each email that has logged in, also for
\* emails whose local parts differ only in '.', '+' and '_'.
ConsumersOf(email) == {c \in consumers : c.username = email}
C14_OneConsumerPerEmail ==
  /\ \A email \in Emails : Cardinality(ConsumersOf(email)) <= 1
  /\ \A b \in Browsers :
       wf[b].pc = "idle" /\ wf[b].last.email \in Emails
       => Cardinality(ConsumersOf(wf[b].last.email)) = 1

\* C15 as stated: in each of the three code paths the identifier derived from
\* an email is the lower-cased text before the first '@' with every '.' and
\* '+' replaced by '_'.
Lower(ch) == IF ch = "J" THEN "j" ELSE IF ch = "D" THEN "d" ELSE ch
FirstAt(email) ==
  IF \E i \in 1..Len(email) : email[i] = "@"
  THEN CHOOSE i \in 1..Len(email) : email[i] = "@" /\ \A j \in 1..(i - 1) : email[j] # "@"
  ELSE Len(email) + 1
Identifier(email, lowered) ==
  [i \in 1..(FirstAt(email) - 1) |->
     IF email[i] \in {".", "+"} THEN "_"
     ELSE IF lowered THEN Lower(email[i]) ELSE email[i]]
C15_LowerCasedIdentifier ==
  out.op \in IdentPaths => out.result = Identifier(out.args[1], TRUE)

\* C15 amended: in each of the three code paths the identifier is the text
\* before the first '@', in the case it has in the email, with every '.' and
\* '+' replaced by '_'; jane.doe+work@company.com gives jane_doe_work.
JaneDoe ==
  <<"j", "a", "n", "e", ".", "d", "o", "e", "+", "w", "o", "r", "k", "@",
    "c", "o", "m", "p", "a", "n", "y", ".", "c", "o", "m">>
C15_IdentifierDerivation ==
  /\ out.op \in IdentPaths => out.result = Identifier(out.args[1], FALSE)
  /\ \A path \in IdentPaths :
       Derived(path, JaneDoe) =
         <<"j", "a", "n", "e", "_", "d", "o", "e", "_", "w", "o", "r", "k">>

\* C15 witness: an email with an upper-case letter and a '+' before its '@'
\* has been mapped; the letter is still upper case.
C15_Witness ==
  /\ out.op = "email_to_kong_username" /\ out.args[1] = <<"J", "+", "@">>
  /\ out.result = <<"J", "_">>

\* C16: one canonical mapping in every code path: once the provisioning
\* workflow has created the consumer for an email, get_user_kong_info,
\* get_user_api_keys, create_user_api_key and revoke_user_access for that
\* email, answered by the gateway as it should, address that consumer and
\* succeed instead of getting 404.
ByEmailOps == {"get_user_kong_info", "get_user_api_keys", "create_user_api_key", "revoke_user_access"}
C16_CanonicalMapping ==
  out.op \in ByEmailOps /\ out.faithful /\ out.provisioned # {}
  => out.result.success /\ out.reached = out.provisioned

\* C17 as stated: when the lookup is answered 404, createConsumer 201 with id
\* c and createConsumerKey 201 with key k, the workflow returns the outcome
\* {success: true, consumer_id: c, api_key: k} to its caller.
HappyPath(b) ==
  /\ wf[b].pc = "mint" /\ Len(wf[b].calls) = 3
  /\ wf[b].calls[1].status = 404
  /\ wf[b].calls[2].status = 201 /\ wf[b].calls[2].exc = "" /\ wf[b].calls[2].id.some
  /\ wf[b].calls[3].status = 201 /\ wf[b].calls[3].exc = "" /\ wf[b].calls[3].id.some
WorkflowReturn(b) ==
  IF wf[b].cid.some THEN [type |-> "str", value |-> wf[b].cid.v]
  ELSE [type |-> "None", value |-> <<>>]
Finished == out.op = "_make_request" /\ out.pc = "done"
Normalized(reply) == IF reply.form = "text" THEN [message |-> <<"Empty response">>] ELSE reply.body

\* C18: a finished client call that got a response with status 400, 404 or
\* 409 has raised KongAdminAPIError with that status as status_code and the
\* normalized response body as response_data; one that got a response with
\* any other status has returned (body, status).
C18_TypedErrorForRaisedStatuses ==
  Finished /\ out.final.reply.kind = "response" =>
    IF out.final.reply.status \in {400, 404, 409}
    THEN /\ out.result.kind = "raise"
         /\ out.result.exc = "KongAdminAPIError"
         /\ out.result.status = out.final.reply.status
         /\ out.result.body = Normalized(out.final.reply)
    ELSE /\ out.result.kind = "return"
         /\ out.result.status = out.final.reply.status
         /\ out.result.body = Normalized(out.final.reply)

\* C19: a finished client call has raised KongAdminAPIError with status_code 0
\* exactly when its last attempt ended without a response; an error raised
\* for a received 400, 404 or 409 carries that status.
C19_StatusZeroIsTransport ==
  Finished =>
    /\ (out.result.kind = "raise" /\ out.result.exc = "KongAdminAPIError" /\ out.result.status = 0)
         <=> out.final.reply.kind = "transport"
    /\ out.result.kind = "raise" /\ out.result.exc = "KongAdminAPIError"
         /\ out.final.reply.kind = "response"
         => out.result.status = out.final.reply.status /\ out.result.status \in RaisedStatuses

\* C19 witness: one call has ended in KongAdminAPIError with status_code 0
\* after its attempts ran out on transport failures.
C19_Witness ==
  /\ Finished /\ out.final.reply.kind = "transport"
  /\ out.result.kind = "raise" /\ out.result.status = 0
  /\ out.sent = RetryTotal + 1

\* C20: a client call of any method re-sends its request only after a 502,
\* 503 or 504 response or a transport failure, makes at most 4 attempts, and
\* when its retries run out on 502, 503 or 504 it returns that last response
\* as (body, status).
C20_BoundedRetry ==
  out.op = "_make_request" =>
    /\ \A r \in out.resent : r.status \in StatusForcelist \cup {0}
    /\ out.sent <= RetryTotal + 1
    /\ out.sent = 1 + (RetryTotal - out.total)
    /\ Finished /\ out.final.reply.kind = "response" /\ out.final.reply.status \in StatusForcelist
         => /\ out.sent = RetryTotal + 1
            /\ out.result = Returned(Normalized(out.final.reply), "dict", out.final.reply.status)

\* How the get_consumer call of a finished consumer_exists ended.
ExistsDone == out.op = "consumer_exists"
TypedError(r) == r.kind = "raise" /\ r.exc = "KongAdminAPIError"

\* C21: consumer_exists has returned true when get_consumer returned 200,
\* false when get_consumer raised KongAdminAPIError with status 404, and for
\* every other KongAdminAPIError (400, 409, 0) it has raised that same error,
\* status_code, message and response_data unchanged.
C21_ExistsSwallowsOnly404 ==
  ExistsDone =>
    LET r == out.call.result
    IN  /\ r.kind = "return" /\ r.status = 200 => out.result = Said(TRUE)
        /\ TypedError(r) /\ r.status = 404 => out.result = Said(FALSE)
        /\ TypedError(r) /\ r.status # 404 =>
             /\ out.result.kind = "raise"
             /\ out.result.err.exc = "KongAdminAPIError"
             /\ out.result.err.status = r.status /\ r.status \in {400, 409, 0}
             /\ out.result.err.message = r.message
             /\ out.result.err.body = r.body

\* C21 witness: consumer_exists has passed on a KongAdminAPIError with
\* status 409 raised by its get_consumer call.
C21_Witness ==
  /\ ExistsDone /\ TypedError(out.call.result) /\ out.call.result.status = 409
  /\ out.result.kind = "raise" /\ out.result.err.status = 409

\* C22: consumer_exists has returned false only when the gateway answered
\* its get_consumer call with 404; after any other answer that is not a
\* success, and after no answer, it has not returned false.
C22_FalseOnlyOn404 ==
  ExistsDone /\ out.result = Said(FALSE) =>
    /\ out.call.final.reply.kind = "response"
    /\ out.call.final.reply.status = 404

\* A /callback request in browser b passes the state check with the state
\* that a /login stored in b's session.
StateStored(b, state) == session[b] \in OAuthStates /\ state = session[b]

\* C23: a /callback request goes on to the code exchange only if its state
\* parameter equals the oauth_state a /login stored in the session; every
\* other /callback request, and one with the stored state but no code, is
\* answered 400 without a cookie.
C23_OAuthStateCheck ==
  [][\A b \in Browsers, state \in StateParams, code \in CodeParams,
        idp \in IdpOutcomes, ui \in UserInfos :
       callback_begin(b, state, code, idp, ui) =>
         /\ wf'[b].pc # "idle" => StateStored(b, state)
         /\ ~StateStored(b, state) \/ code \in {None, ""} =>
              /\ resp'.req.route = "callback" /\ resp'.res.status = 400
              /\ ~resp'.res.setCookie.present
              /\ cookie' = cookie /\ wf'[b].pc = "idle"]_vars

\* A step in which the gateway is called for browser b's callback, and one
\* in which b is given an auth_token cookie.
GatewayCalled(b) == wf'[b].calls # wf[b].calls /\ wf'[b].calls # <<>>
CookieSet(b) == cookie'[b] # cookie[b] /\ cookie'[b].present

\* C24: within a callback the gateway is called only after the token exchange
\* and the user-info request succeeded, and the token is minted only after
\* the provisioning returned; a callback whose state check, code check, token
\* exchange or user-info request fails is answered 400, calls no gateway and
\* sets no cookie.
C24_CallbackOrdering ==
  [][\A b \in Browsers :
       /\ GatewayCalled(b) \/ consumers' # consumers \/ keys' # keys =>
            wf[b].pc \in {"lookup", "create", "key"} /\ wf[b].user \in UserInfos
       /\ CookieSet(b) =>
            /\ wf[b].pc = "mint" /\ wf[b].calls # <<>>
            /\ wf[b].calls[Len(wf[b].calls)].op \in {"get", "create", "key"}
            /\ resp'.calls = wf[b].calls
       /\ \A state \in StateParams, code \in CodeParams, idp \in IdpOutcomes, ui \in UserInfos :
            /\ callback_begin(b, state, code, idp, ui)
            /\ state # session[b] \/ code \in {None, ""} \/ idp # "ok"
            => /\ resp'.req.route = "callback" /\ resp'.res.status = 400
               /\ ~resp'.res.setCookie.present /\ resp'.calls = <<>>
               /\ wf'[b].pc = "idle" /\ wf'[b].calls = <<>>
               /\ <<cookie, consumers, keys>>' = <<cookie, consumers, keys>>]_vars

\* C24 witness: a callback has been answered with the cookie after its
\* provisioning called the gateway three times.
C24_Witness ==
  /\ resp.req.route = "callback" /\ resp.res.status = 302 /\ resp.res.setCookie.present
  /\ Len(resp.calls) = 3
  /\ \E b \in Browsers : cookie[b] = resp.res.setCookie /\ wf[b].pc = "idle"

\* The concurrent invocations have all returned; what they leave behind: the
\* number of consumers and of keys in the gateway and the number of
\* invocations that returned the consumer's id (the others returned None).
RunsOver ==
  out.op = "create_or_get_kong_consumer" /\ \A i \in Invocations : out.runs[i].pc = "returned"
Outcome ==
  [consumers |-> Cardinality(consumers), keys |-> Cardinality(keys),
   ids |-> Cardinality({i \in Invocations : out.runs[i].cid.some})]
Resent(pc) == \E i \in Invocations : pc \in out.runs[i].resent
\* Every outcome of two concurrent invocations through a session that does
\* not retry, under every interleaving and every transient fault.
RetryFreeOutcomes ==
  { [consumers |-> 0, keys |-> 0, ids |-> 0], [consumers |-> 1, keys |-> 0, ids |-> 0],
    [consumers |-> 1, keys |-> 0, ids |-> 1], [consumers |-> 1, keys |-> 0, ids |-> 2],
    [consumers |-> 1, keys |-> 1, ids |-> 1], [consumers |-> 1, keys |-> 1, ids |-> 2] }

SameStatusAndId(a, b) ==
  /\ a.kind = b.kind /\ a.status = b.status
  /\ ("id" \in DOMAIN a.body) = ("id" \in DOMAIN b.body)
  /\ "id" \in DOMAIN a.body => a.body["id"] = b.body["id"]
AnsweredAlike(answers, others) == \A n \in 1..3 : SameStatusAndId(answers[n], others[n])

\* C26: a run of the workflow makes the same gateway calls and returns the
\* same result as every run whose answers carry the same status codes and
\* the same consumer id, whatever their messages and bodies.
C26_DispatchOnStatusOnly ==
  out.op = "create_or_get_kong_consumer" /\ "result" \in DOMAIN out =>
    \A a1 \in LookupAnswers, a2 \in CreateAnswers, a3 \in KeyAnswers :
      AnsweredAlike(out.args, <<a1, a2, a3>>) =>
        create_or_get_kong_consumer(<<a1, a2, a3>>) = out.result

\* The call of a run that returned 201 from createConsumer, with the id.
Created201(call) ==
  call.op = "create" /\ call.status = 201 /\ call.exc = "" /\ call.id.some

\* C27: in a run of the workflow createConsumerKey is called at most once,
\* as the call right after that run's createConsumer returned 201; a key
\* enters the gateway only through that call, for the consumer that run
\* created, so a run that finds the consumer present or whose createConsumer
\* ended otherwise adds no key.
C27_KeyOnlyAfterOwnCreate ==
  [][/\ \A b \in Browsers : \A n \in 1..Len(wf'[b].calls) :
          wf'[b].calls[n].op = "key" =>
            /\ n = Len(wf'[b].calls) /\ n >= 2
            /\ Created201(wf'[b].calls[n - 1])
            /\ \A m \in 1..(n - 1) : wf'[b].calls[m].op # "key"
     /\ keys' # keys =>
          \E b \in Browsers :
            /\ wf[b].pc = "key" /\ wf[b].calls # <<>>
            /\ Created201(wf[b].calls[Len(wf[b].calls)])
            /\ \A k \in keys' \ keys : k.consumer = wf[b].calls[Len(wf[b].calls)].id.v]_vars

\* C27 witness: a later run has found present a consumer whose creating run
\* got no key, and has returned without calling createConsumerKey; the
\* consumer has no key.
C27_Witness ==
  \E b \in Browsers :
    /\ wf[b].pc = "mint" /\ Len(wf[b].calls) = 1
    /\ wf[b].calls[1].op = "get" /\ wf[b].calls[1].status = 200 /\ wf[b].calls[1].faithful
    /\ wf[b].cid.some
    /\ \E c \in consumers : c.id = wf[b].cid.v /\ KeysOf(keys, c) = {}

\* The step just taken answered a /callback request of browser b with the
\* redirect and the cookie.
JustSucceeded(b) ==
  /\ resp.req.route = "callback" /\ resp.res.status = 302
  /\ resp.res.setCookie.present /\ cookie[b] = resp.res.setCookie

\* C28: a /callback that succeeds leaves no oauth_state in the session, and
\* the same request (same state and code) sent again before a new /login is
\* answered 400; a /callback that is answered 400 leaves the session as it was.
C28_StateIsSingleUse ==
  [][\A b \in Browsers :
       /\ wf[b].pc = "mint" /\ wf'[b].pc = "idle" => session'[b] = None
       /\ \A state \in StateParams, code \in CodeParams, idp \in IdpOutcomes, ui \in UserInfos :
            callback_begin(b, state, code, idp, ui) =>
              /\ resp'.res.status = 400 => session' = session
              /\ JustSucceeded(b) /\ state = resp.req.state /\ code = resp.req.code =>
                   /\ resp'.req.route = "callback" /\ resp'.res.status = 400
                   /\ wf'[b].pc = "idle"]_vars

\* C29: the webhook endpoint dispatches no handler unless the signature was
\* verified; it answers 500 without a configured secret, else 400 without a
\* Stripe-Signature header, else 400 for a payload that is no valid JSON,
\* else 400 when the signature verification fails; otherwise it invokes
\* process_webhook_event and answers 200 when that returns true, unhandled
\* event types included, and 500 when it returns false.
C29_WebhookVerifiesFirst ==
  out.op = "stripe_webhook" =>
    LET a == out.args
        r == out.result
    IN  /\ r.dispatched => r.verified
        /\ r.status =
             CASE ~Truthy(a.endpoint_secret) -> 500
               [] Truthy(a.endpoint_secret) /\ ~Truthy(a.signature) -> 400
               [] Truthy(a.endpoint_secret) /\ Truthy(a.signature) /\ a.payload # "json" -> 400
               [] Truthy(a.endpoint_secret) /\ Truthy(a.signature) /\ a.payload = "json"
                    /\ a.verify.raises -> 400
               [] OTHER -> IF process_webhook_event(a.event, a.handler_raises).success
                           THEN 200 ELSE 500

\* The keys held now by the consumers a service call addressed.
KeysOfReached == {k \in keys : \E c \in out.reached : k.consumer = c.id}

\* C30: regenerate_user_api_key, called for a user whose consumer exists with
\* at least one key and answered by the gateway as it should be, returns
\* success with an API key that is new, and leaves the consumer with exactly
\* that key.
C30_RegenerateReplacesKeys ==
  /\ out.op = "regenerate_user_api_key" /\ out.faithful
  /\ out.reached # {} /\ out.had # {}
  => /\ out.result.success /\ "api_key" \in DOMAIN out.result
     /\ \A k \in out.had : k.key # out.result.api_key
     /\ Cardinality(KeysOfReached) = 1
     /\ \A k \in KeysOfReached : k.key = out.result.api_key

====
